---- MODULE Spec2Model ----
(***************************************************************************)
(* A model of the Chert Go SDK: the JSON-RPC transport (RPCClient.Call),   *)
(* the client facade and its managers, and the transaction lifecycle       *)
(* (WalletManager.SendTransaction / WaitForTransaction).                   *)
(*                                                                         *)
(* One caller drives one client.  A single-RPC operation is one action     *)
(* (the whole method, its Call included); WaitForTransaction is one action *)
(* for its prologue and one action per loop iteration, because the node    *)
(* and the caller's context may change between two iterations.             *)
(***************************************************************************)
EXTENDS Integers, Sequences, FiniteSets, TLC

(***************************************************************************)
(* Bounds of the model.                                                    *)
(***************************************************************************)
\* failing fetches of one WaitForTransaction that are counted exactly
MaxFails == 3
\* the timeoutMs arguments tried are 0 and 1000, 2000 .. MaxTimeoutK * 1000
MaxTimeoutK == 5
\* the public keys tried are the strings over KeyChars of at most this length
MaxKeyLen == 2

(***************************************************************************)
(* Program constants.                                                      *)
(***************************************************************************)
Interval == 2000
DefaultTimeoutMs == 60000
DefaultTimeout == 30
RequestID == 1
DefaultEndpoint == "https://api.chert.com"
NetworkMainnet == "mainnet"

TxStatusPending == "pending"
TxStatusConfirmed == "confirmed"
TxStatusFailed == "failed"
TxStatusRejected == "rejected"

(***************************************************************************)
(* Errors.  kind is the Go type / wrapping stage of the error:             *)
(*   nil        no error                                                   *)
(*   marshal    "failed to marshal RPC request: ..."                       *)
(*   create     "failed to create RPC request: ..."                        *)
(*   send       "RPC request failed: ..." wrapping the cause in msg        *)
(*   decode     "failed to decode RPC response: ..."                       *)
(*   rpc        the *JSONRPCError of the envelope (code, message)          *)
(*   unmarshal  the bare error of json.Unmarshal into the result slot      *)
(*   local      an error made by fmt.Errorf in a manager, msg its text     *)
(***************************************************************************)
Err(kind, code, msg) == [kind |-> kind, code |-> code, msg |-> msg]
NilErr == Err("nil", 0, "")

\* errors.Is(err, context.Canceled) or errors.Is(err, context.DeadlineExceeded)
IsCancellation(e) == e.kind = "send" /\ e.msg \in {"canceled", "deadline"}

(***************************************************************************)
(* JSON values, as encoding/json decodes them into interface{}.            *)
(* f holds the members of an object (a function from the keys present).    *)
(***************************************************************************)
JNull == [t |-> "null", s |-> "", n |-> 0, f |-> <<>>]
JStr(s) == [t |-> "str", s |-> s, n |-> 0, f |-> <<>>]
JNum(n) == [t |-> "num", s |-> "", n |-> n, f |-> <<>>]
JArr == [t |-> "arr", s |-> "", n |-> 0, f |-> <<>>]
JObj(f) == [t |-> "obj", s |-> "", n |-> 0, f |-> f]

(***************************************************************************)
(* Go values of the result slots.                                          *)
(***************************************************************************)
\* type Transaction: the string fields, Status, and the numeric fields
\* (Hash stands for Hash/From/To/Amount/Fee/Memo, Nonce for Nonce/BlockHeight)
TransactionShape == [hash |-> "string", status |-> "string", nonce |-> "uint64"]
ZeroTransaction == [hash |-> "", status |-> "", nonce |-> 0]

\* var result map[string]interface{}: the nil map
NilMap == [isNil |-> TRUE, m |-> <<>>]

\* the result argument of Call: nil, a pointer to a struct, a pointer to a map
NoSlot == [kind |-> "none", shape |-> <<>>, val |-> <<>>]
StructSlot(shape, val) == [kind |-> "struct", shape |-> shape, val |-> val]
MapSlot(val) == [kind |-> "map", shape |-> <<>>, val |-> val]
\* a pointer to a map[string]VoteOption, whose values are strings
StrMapSlot(val) == [kind |-> "strmap", shape |-> <<>>, val |-> val]

(***************************************************************************)
(* json.Unmarshal(resultBytes, result)                                     *)
(***************************************************************************)
\* does the JSON value v fit a Go field of type ty
Fits(v, ty) ==
    \/ ty = "string" /\ v.t = "str"
    \/ ty = "uint64" /\ v.t = "num" /\ v.n >= 0
    \/ ty = "slice" /\ v.t = "arr"

\* a slice: nil, or made with the elements of the array (JArr has none)
NilSlice == [isNil |-> TRUE, len |-> 0]
EmptySlice == [isNil |-> FALSE, len |-> 0]

GoValue(v, ty) ==
    IF ty = "string" THEN v.s ELSE IF ty = "uint64" THEN v.n ELSE EmptySlice

\* Into a struct: a non-object is a type error and nothing is stored; in an
\* object every member that fits is stored, a null member is skipped, and a
\* member that does not fit is skipped and reported after the rest was decoded.
UnmarshalStruct(j, shape, val) ==
    IF j.t = "null" THEN [val |-> val, err |-> NilErr]
    ELSE IF j.t /= "obj" THEN [val |-> val, err |-> Err("unmarshal", 0, "")]
    ELSE LET present == DOMAIN shape \cap DOMAIN j.f
             bad == { k \in present : j.f[k].t /= "null" /\ ~Fits(j.f[k], shape[k]) }
         IN  [val |-> [k \in DOMAIN shape |->
                          IF k \in present /\ Fits(j.f[k], shape[k])
                          THEN GoValue(j.f[k], shape[k])
                          ELSE val[k]],
              err |-> IF bad = {} THEN NilErr ELSE Err("unmarshal", 0, "")]

\* Into a map[string]interface{}: an object's members are stored (the map is
\* made when nil, entries already there are kept); anything else is an error.
UnmarshalMap(j, val) ==
    IF j.t = "null" THEN [val |-> val, err |-> NilErr]
    ELSE IF j.t /= "obj" THEN [val |-> val, err |-> Err("unmarshal", 0, "")]
    ELSE [val |-> [isNil |-> FALSE,
                   m |-> [k \in DOMAIN val.m \cup DOMAIN j.f |->
                             IF k \in DOMAIN j.f THEN j.f[k] ELSE val.m[k]]],
          err |-> NilErr]

\* Into a map of strings: every member of an object is stored, one that is
\* not a string as the empty string, and such a member is a type error unless
\* it is null.
UnmarshalStrMap(j, val) ==
    IF j.t = "null" THEN [val |-> val, err |-> NilErr]
    ELSE IF j.t /= "obj" THEN [val |-> val, err |-> Err("unmarshal", 0, "")]
    ELSE [val |-> [isNil |-> FALSE,
                   m |-> [k \in DOMAIN val.m \cup DOMAIN j.f |->
                             IF k \notin DOMAIN j.f THEN val.m[k]
                             ELSE IF j.f[k].t = "str" THEN j.f[k] ELSE JStr("")]],
          err |-> IF \E k \in DOMAIN j.f : j.f[k].t \notin {"str", "null"}
                  THEN Err("unmarshal", 0, "") ELSE NilErr]

Unmarshal(j, slot) ==
    IF slot.kind = "struct"
    THEN LET r == UnmarshalStruct(j, slot.shape, slot.val)
         IN  [slot |-> StructSlot(slot.shape, r.val), err |-> r.err]
    ELSE IF slot.kind = "strmap"
    THEN LET r == UnmarshalStrMap(j, slot.val)
         IN  [slot |-> StrMapSlot(r.val), err |-> r.err]
    ELSE LET r == UnmarshalMap(j, slot.val)
         IN  [slot |-> MapSlot(r.val), err |-> r.err]

(***************************************************************************)
(* The wire: request envelopes, HTTP exchanges and response bodies.        *)
(***************************************************************************)
\* the params argument of Call: nil, a []interface{} of values, or a value
\* json.Marshal rejects (a channel, a func, a NaN)
PNil == [t |-> "nil", v |-> <<>>]
PList(v) == [t |-> "list", v |-> v]
PBad == [t |-> "bad", v |-> <<>>]
\* a []interface{} of strings that may hold bytes that are no UTF-8
PStrings(v) == [t |-> "strings", v |-> v]

\* In a Go string of the model the character "#" stands for a byte that is
\* not part of any UTF-8 sequence (0xff); json.Marshal writes such a byte as
\* the replacement character U+FFFD, which "?" stands for.
InvalidByte == "#"
ReplacementChar == "?"

ToValidUTF8(s) ==
    LET coerced[i \in 0..Len(s)] ==
            IF i = 0 THEN ""
            ELSE coerced[i - 1]
                 \o (IF SubSeq(s, i, i) = InvalidByte THEN ReplacementChar
                     ELSE SubSeq(s, i, i))
    IN  coerced[Len(s)]

\* a map[string]string of headers, or an http.Header with one value a name;
\* the nil map and the empty map range alike
NoHeaders == <<>>

LowerLetters == <<"a", "b", "c", "d", "e", "f", "g", "h", "i", "j", "k", "l", "m",
                  "n", "o", "p", "q", "r", "s", "t", "u", "v", "w", "x", "y", "z">>
UpperLetters == <<"A", "B", "C", "D", "E", "F", "G", "H", "I", "J", "K", "L", "M",
                  "N", "O", "P", "Q", "R", "S", "T", "U", "V", "W", "X", "Y", "Z">>

\* the place of c among the letters, 0 when it is none of them
LetterIndex(letters, c) ==
    IF \E i \in 1..26 : letters[i] = c
    THEN CHOOSE i \in 1..26 : letters[i] = c
    ELSE 0

\* http.CanonicalHeaderKey for names of letters and hyphens: the first
\* letter and each letter after a hyphen in upper case, the others in lower
CanonicalHeaderKey(key) ==
    LET canonical[i \in 0..Len(key)] ==
            IF i = 0 THEN ""
            ELSE LET c == SubSeq(key, i, i)
                     upper == i = 1 \/ SubSeq(key, i - 1, i - 1) = "-"
                 IN  canonical[i - 1]
                     \o (IF upper /\ LetterIndex(LowerLetters, c) > 0
                         THEN UpperLetters[LetterIndex(LowerLetters, c)]
                         ELSE IF ~upper /\ LetterIndex(UpperLetters, c) > 0
                         THEN LowerLetters[LetterIndex(UpperLetters, c)]
                         ELSE c)
    IN  canonical[Len(key)]

\* http.Header.Set: the value of the canonical name is replaced
Set(header, key, value) ==
    [name \in DOMAIN header \cup {CanonicalHeaderKey(key)} |->
        IF name = CanonicalHeaderKey(key) THEN value ELSE header[name]]

\* the envelope as the node reads it; Params has omitempty, so a nil params
\* leaves no "params" member
NoWire ==
    [jsonrpc |-> "", method |-> "", hasParams |-> FALSE, params |-> <<>>, id |-> 0,
     headers |-> NoHeaders]

\* the HTTP request as the node receives it: the envelope under the headers
HTTPRequest(envelope, header) == [headers |-> header] @@ envelope

\* json.Marshal(request), had omitempty dropped an empty parameter list too
MarshalRequest_OmitsEmptyList(method, params) ==
    [jsonrpc |-> "2.0", method |-> ToValidUTF8(method),
     hasParams |-> (params.v /= <<>>),
     params |-> IF params.t = "strings"
                THEN [i \in DOMAIN params.v |-> ToValidUTF8(params.v[i])]
                ELSE params.v,
     id |-> RequestID]

\* json.Marshal(request) as the node decodes it: strings are written as valid
\* UTF-8, the other values as they are
MarshalRequest(method, params) ==
    [jsonrpc |-> "2.0", method |-> ToValidUTF8(method),
     hasParams |-> (params.t /= "nil"),
     params |-> IF params.t = "strings"
                THEN [i \in DOMAIN params.v |-> ToValidUTF8(params.v[i])]
                ELSE params.v,
     id |-> RequestID]

\* the "error" member of a response: absent, null, an object with an integer
\* code and a string message, or something a *JSONRPCError cannot hold
NoErrorMember == [t |-> "absent", code |-> 0, message |-> ""]
NullErrorMember == [t |-> "null", code |-> 0, message |-> ""]
BadErrorMember == [t |-> "bad", code |-> 0, message |-> ""]
ErrorObject(code, message) == [t |-> "obj", code |-> code, message |-> message]

\* a response body: ok is FALSE when the body is not a JSON object at all
Body(ok, error, result) == [ok |-> ok, error |-> error, result |-> result]
MalformedBody == Body(FALSE, NoErrorMember, JNull)

\* what c.client.Do(req) meets once the request leaves: the connection is
\* refused, the http.Client timeout fires, the context ends in flight, or a
\* body arrives
NetFail(kind) == [kind |-> kind, body |-> MalformedBody]
NetBody(body) == [kind |-> "body", body |-> body]
NetFailures == { NetFail(k) : k \in {"refused", "timeout", "canceled", "deadline"} }

\* the context after the exchange
CtxAfter(ctx, net) ==
    IF ctx = "live" /\ net.kind \in {"canceled", "deadline"} THEN net.kind ELSE ctx

\* url.Parse of the endpoint inside http.NewRequestWithContext
BadEndpoint == ":bad"
EndpointParses(endpoint) == endpoint /= BadEndpoint

(***************************************************************************)
(* RPCClient.Call.  The value is the returned error, the result slot after *)
(* the call, the number of HTTP POSTs issued and the envelope sent.        *)
(***************************************************************************)
CallResult(err, slot, posts, wire) ==
    [err |-> err, slot |-> slot, posts |-> posts, wire |-> wire]

\* Call, had it decoded the result before looking at the error member
Call_ResultBeforeError(endpoint, ctx, method, params, slot, net) ==
    IF params.t = "bad"
    THEN CallResult(Err("marshal", 0, ""), slot, 0, NoWire)
    ELSE IF ~EndpointParses(endpoint)
    THEN CallResult(Err("create", 0, ""), slot, 0, NoWire)
    ELSE IF ctx /= "live"
    THEN CallResult(Err("send", 0, ctx), slot, 0, NoWire)
    ELSE LET wire == HTTPRequest(MarshalRequest(method, params),
                                Set(NoHeaders, "Content-Type", "application/json"))
             body == net.body
             u == IF slot.kind /= "none" /\ body.result.t /= "null"
                  THEN Unmarshal(body.result, slot)
                  ELSE [slot |-> slot, err |-> NilErr]
         IN  IF net.kind /= "body"
             THEN CallResult(Err("send", 0, net.kind), slot, 1, wire)
             ELSE IF ~body.ok \/ body.error.t = "bad"
             THEN CallResult(Err("decode", 0, ""), slot, 1, wire)
             ELSE IF body.error.t = "obj"
             THEN CallResult(Err("rpc", body.error.code, body.error.message), u.slot, 1, wire)
             ELSE CallResult(u.err, u.slot, 1, wire)

\* Call, had it sent the request a second time after a failed exchange
Call_RetriesSend(endpoint, ctx, method, params, slot, net) ==
    IF params.t = "bad"
    THEN CallResult(Err("marshal", 0, ""), slot, 0, NoWire)
    ELSE IF ~EndpointParses(endpoint)
    THEN CallResult(Err("create", 0, ""), slot, 0, NoWire)
    ELSE IF ctx /= "live"
    THEN CallResult(Err("send", 0, ctx), slot, 0, NoWire)
    ELSE LET wire == HTTPRequest(MarshalRequest(method, params),
                                Set(NoHeaders, "Content-Type", "application/json"))
             body == net.body
         IN  IF net.kind /= "body"
             THEN CallResult(Err("send", 0, net.kind), slot, 2, wire)
             ELSE IF ~body.ok \/ body.error.t = "bad"
             THEN CallResult(Err("decode", 0, ""), slot, 1, wire)
             ELSE IF body.error.t = "obj"
             THEN CallResult(Err("rpc", body.error.code, body.error.message), slot, 1, wire)
             ELSE IF slot.kind /= "none" /\ body.result.t /= "null"
             THEN LET u == Unmarshal(body.result, slot)
                  IN  CallResult(u.err, u.slot, 1, wire)
             ELSE CallResult(NilErr, slot, 1, wire)

\* Call, had it returned a malformed response body as a JSON-RPC error
Call_DecodeAsRPCError(endpoint, ctx, method, params, slot, net) ==
    IF params.t = "bad"
    THEN CallResult(Err("marshal", 0, ""), slot, 0, NoWire)
    ELSE IF ~EndpointParses(endpoint)
    THEN CallResult(Err("create", 0, ""), slot, 0, NoWire)
    ELSE IF ctx /= "live"
    THEN CallResult(Err("send", 0, ctx), slot, 0, NoWire)
    ELSE LET wire == HTTPRequest(MarshalRequest(method, params),
                                Set(NoHeaders, "Content-Type", "application/json"))
             body == net.body
         IN  IF net.kind /= "body"
             THEN CallResult(Err("send", 0, net.kind), slot, 1, wire)
             ELSE IF ~body.ok \/ body.error.t = "bad"
             THEN CallResult(Err("rpc", 0, ""), slot, 1, wire)
             ELSE IF body.error.t = "obj"
             THEN CallResult(Err("rpc", body.error.code, body.error.message), slot, 1, wire)
             ELSE IF slot.kind /= "none" /\ body.result.t /= "null"
             THEN LET u == Unmarshal(body.result, slot)
                  IN  CallResult(u.err, u.slot, 1, wire)
             ELSE CallResult(NilErr, slot, 1, wire)

Call(endpoint, ctx, method, params, slot, net) ==
    IF params.t = "bad"
    THEN CallResult(Err("marshal", 0, ""), slot, 0, NoWire)
    ELSE IF ~EndpointParses(endpoint)
    THEN CallResult(Err("create", 0, ""), slot, 0, NoWire)
    ELSE IF ctx /= "live"
    THEN CallResult(Err("send", 0, ctx), slot, 0, NoWire)
    ELSE LET wire == HTTPRequest(MarshalRequest(method, params),
                                Set(NoHeaders, "Content-Type", "application/json"))
             body == net.body
         IN  IF net.kind /= "body"
             THEN CallResult(Err("send", 0, net.kind), slot, 1, wire)
             ELSE IF ~body.ok \/ body.error.t = "bad"
             THEN CallResult(Err("decode", 0, ""), slot, 1, wire)
             ELSE IF body.error.t = "obj"
             THEN CallResult(Err("rpc", body.error.code, body.error.message), slot, 1, wire)
             ELSE IF slot.kind /= "none" /\ body.result.t /= "null"
             THEN LET u == Unmarshal(body.result, slot)
                  IN  CallResult(u.err, u.slot, 1, wire)
             ELSE CallResult(NilErr, slot, 1, wire)

(***************************************************************************)
(* What the node may answer.                                               *)
(***************************************************************************)
\* the objects that have, for each key of a subset of the keys of choices, a
\* member drawn from the choices of that key
Objects(choices) ==
    LET all == UNION { choices[k] : k \in DOMAIN choices }
    IN  UNION { { JObj(f) : f \in { g \in [ks -> all] : \A k \in ks : g[k] \in choices[k] } }
                : ks \in SUBSET DOMAIN choices }

\* results for a getTransaction request: members that fit the Transaction
\* fields, members that do not, a null status, an unknown status
TxResults ==
    {JNull, JStr("0xabc"), JArr} \cup
    Objects([hash |-> {JStr("0xabc"), JNum(7)},
             status |-> {JNull, JStr(TxStatusPending), JStr(TxStatusConfirmed),
                         JStr(TxStatusFailed), JStr(TxStatusRejected),
                         JStr("unknown"), JNum(7)},
             nonce |-> {JNum(7), JStr("x")}])

\* results for a sendTransaction request
SendResults ==
    {JNull, JStr("0xabc"), JArr} \cup
    Objects([hash |-> {JStr("0xabc"), JStr(""), JNum(7), JNull},
             other |-> {JStr("x")}])

RPCErrors == { ErrorObject(-32000, "not found"),
               ErrorObject(-32602, "invalid params"),
               ErrorObject(0, "") }

\* the response bodies: not JSON, an unusable error member, an error object
\* (alone or next to a result), or a result
Bodies(results) ==
    {MalformedBody, Body(TRUE, BadErrorMember, JNull)}
    \cup { Body(TRUE, e, r) : e \in RPCErrors,
                              r \in {JNull, JObj([status |-> JStr(TxStatusConfirmed)])} }
    \cup { Body(TRUE, e, r) : e \in {NoErrorMember, NullErrorMember}, r \in results }

Nets(results) == NetFailures \cup { NetBody(b) : b \in Bodies(results) }

\* results for the fetches of WaitForTransaction: every status, alone, next
\* to a hash, and next to a hash that does not fit its field
FetchResults ==
    {JNull, JArr} \cup
    Objects([hash |-> {JStr("0xabc"), JNum(7)},
             status |-> {JNull, JStr(TxStatusPending), JStr(TxStatusConfirmed),
                         JStr(TxStatusFailed), JStr(TxStatusRejected),
                         JStr("unknown"), JNum(7)}])

\* what a fetch of WaitForTransaction may meet: a failed exchange, a body
\* that is not JSON, "not found", or a result
FetchNets ==
    NetFailures
    \cup { NetBody(MalformedBody), NetBody(Body(TRUE, ErrorObject(-32000, "not found"), JNull)) }
    \cup { NetBody(Body(TRUE, NoErrorMember, r)) : r \in FetchResults }

TxNets == Nets(TxResults)
SendNets == Nets(SendResults)

(***************************************************************************)
(* Client construction.                                                    *)
(***************************************************************************)
\* a *ClientConfig: nil, or its five fields
NilConfig ==
    [isNil |-> TRUE, Endpoint |-> "", Network |-> "", Timeout |-> 0, APIKey |-> "",
     Headers |-> NoHeaders]
Config(endpoint, network, timeout, apiKey, headers) ==
    [isNil |-> FALSE, Endpoint |-> endpoint, Network |-> network, Timeout |-> timeout,
     APIKey |-> apiKey, Headers |-> headers]

DefaultClientConfig == Config(DefaultEndpoint, NetworkMainnet, DefaultTimeout, "", NoHeaders)

NewRPCClient(endpoint, timeout) == [endpoint |-> endpoint, timeout |-> timeout]

\* the managers; each keeps the pointer to the client that made it
ManagerNames == {"Wallet", "Privacy", "Staking", "Governance"}
ClientRef == "client"
NewManager(client) == [client |-> client]

\* the client before NewClient has returned
NoClient ==
    [config |-> NilConfig, httpClient |-> [Timeout |-> 0], rpcClient |-> NewRPCClient("", 0),
     managers |-> [m \in ManagerNames |-> NewManager("")]]

\* NewClient, had it built the transport before it applied the defaults
NewClient_TransportBeforeDefaults(config) ==
    LET c0 == IF config.isNil THEN DefaultClientConfig ELSE config
        c1 == IF c0.Endpoint = "" THEN [c0 EXCEPT !.Endpoint = DefaultEndpoint] ELSE c0
        c2 == IF c1.Timeout = 0 THEN [c1 EXCEPT !.Timeout = DefaultTimeout] ELSE c1
        c3 == IF c2.Network = "" THEN [c2 EXCEPT !.Network = NetworkMainnet] ELSE c2
    IN  [config |-> c3,
         httpClient |-> [Timeout |-> c3.Timeout],
         rpcClient |-> NewRPCClient(c0.Endpoint, c0.Timeout),
         managers |-> [m \in ManagerNames |-> NewManager(ClientRef)]]

NewClient(config) ==
    LET c0 == IF config.isNil THEN DefaultClientConfig ELSE config
        c1 == IF c0.Endpoint = "" THEN [c0 EXCEPT !.Endpoint = DefaultEndpoint] ELSE c0
        c2 == IF c1.Timeout = 0 THEN [c1 EXCEPT !.Timeout = DefaultTimeout] ELSE c1
        c3 == IF c2.Network = "" THEN [c2 EXCEPT !.Network = NetworkMainnet] ELSE c2
    IN  [config |-> c3,
         httpClient |-> [Timeout |-> c3.Timeout],
         rpcClient |-> NewRPCClient(c3.Endpoint, c3.Timeout),
         managers |-> [m \in ManagerNames |-> NewManager(ClientRef)]]

\* the transport a manager calls: wm.client.rpcClient
ManagerTransport(client, manager) ==
    IF client.managers[manager].client = ClientRef
    THEN client.rpcClient
    ELSE NewRPCClient("", 0)

\* ChertClient.makeRequest, the headers of the request it builds: the two
\* fixed ones, the bearer token when an API key is set, then each configured
\* header set over them.  The configured map is ranged over in an order that
\* is not specified, so two configured names with one canonical form leave
\* either value.  No method of the package calls makeRequest.
makeRequestHeaders(config) ==
    LET fixed == Set(Set(NoHeaders, "Content-Type", "application/json"),
                     "Accept", "application/json")
        authorized == IF config.APIKey /= ""
                      THEN Set(fixed, "Authorization", "Bearer " \o config.APIKey)
                      ELSE fixed
        custom == { CanonicalHeaderKey(k) : k \in DOMAIN config.Headers }
        values == { config.Headers[k] : k \in DOMAIN config.Headers }
    IN  { [name \in DOMAIN authorized \cup custom |->
              IF name \in custom THEN chosen[name] ELSE authorized[name]] :
          chosen \in { f \in [custom -> values] :
                         \A name \in custom : \E k \in DOMAIN config.Headers :
                             CanonicalHeaderKey(k) = name /\ f[name] = config.Headers[k] } }

\* the configurations tried: nil, only an endpoint (one that does not
\* parse), everything set, and only a network
Configs ==
    { NilConfig,
      Config(BadEndpoint, "", 0, "", NoHeaders),
      Config("https://node.example", "testnet", 5, "key1",
             ("X-Trace" :> "t1") @@ ("content-type" :> "text/plain")),
      Config("", "devnet", 0, "", ("X-Trace" :> "t1")) }

(***************************************************************************)
(* Addresses: encoding/hex, the digest, GenerateAddress.                   *)
(***************************************************************************)
HexDigits == <<"0", "1", "2", "3", "4", "5", "6", "7", "8", "9",
               "a", "b", "c", "d", "e", "f">>
UpperHexDigits == <<"0", "1", "2", "3", "4", "5", "6", "7", "8", "9",
                    "A", "B", "C", "D", "E", "F">>

\* hex's reverse table: the value of a hex digit of either case, 16 for any
\* other character
FromHexChar(c) ==
    IF \E i \in 1..16 : HexDigits[i] = c
    THEN (CHOOSE i \in 1..16 : HexDigits[i] = c) - 1
    ELSE IF \E i \in 1..16 : UpperHexDigits[i] = c
    THEN (CHOOSE i \in 1..16 : UpperHexDigits[i] = c) - 1
    ELSE 16

CharAt(s, i) == SubSeq(s, i, i)

\* hex.DecodeString: the bytes of the digit pairs; an error on a character
\* that is no hex digit and on an odd length
DecodeString(s) ==
    LET n == Len(s)
        bad == \E i \in 1..n : FromHexChar(CharAt(s, i)) > 15
    IN  IF bad \/ n % 2 = 1
        THEN [ok |-> FALSE, bytes |-> <<>>]
        ELSE [ok |-> TRUE,
              bytes |-> [i \in 1..(n \div 2) |->
                            16 * FromHexChar(CharAt(s, 2 * i - 1))
                               + FromHexChar(CharAt(s, 2 * i))]]

\* hex.EncodeToString: two lower-case digits per byte
RECURSIVE EncodeToString(_)
EncodeToString(bytes) ==
    IF bytes = <<>> THEN ""
    ELSE HexDigits[(Head(bytes) \div 16) + 1] \o HexDigits[(Head(bytes) % 16) + 1]
         \o EncodeToString(Tail(bytes))

\* sha256.Sum256 stands as a fixed function from the bytes to 32 bytes: a
\* running fold of the input spread over the positions of the digest
RECURSIVE Fold(_, _)
Fold(bytes, h) ==
    IF bytes = <<>> THEN h ELSE Fold(Tail(bytes), (33 * h + Head(bytes) + 1) % 65536)

Sum256(bytes) ==
    LET h == Fold(bytes, 5381)
    IN  [i \in 1..32 |-> ((h \div 256) * i + (h % 256) + 7 * i) % 256]

\* GenerateAddress, had it encoded the whole digest
GenerateAddress_WholeDigest(publicKey) ==
    LET pubKeyBytes == DecodeString(publicKey)
    IN  IF ~pubKeyBytes.ok
        THEN [address |-> "", err |-> Err("local", 0, "invalid public key hex")]
        ELSE [address |-> "chert_" \o EncodeToString(Sum256(pubKeyBytes.bytes)),
              err |-> NilErr]

GenerateAddress(publicKey) ==
    LET pubKeyBytes == DecodeString(publicKey)
    IN  IF ~pubKeyBytes.ok
        THEN [address |-> "", err |-> Err("local", 0, "invalid public key hex")]
        ELSE LET hash == Sum256(pubKeyBytes.bytes)
             IN  [address |-> "chert_" \o EncodeToString(SubSeq(hash, 1, 20)),
                  err |-> NilErr]

\* the characters of the public keys tried: digits of both cases and a
\* character that is no hex digit
KeyChars == {"0", "a", "A", "g"}

RECURSIVE Strings(_)
Strings(n) ==
    IF n = 0 THEN {""}
    ELSE LET shorter == Strings(n - 1)
         IN  shorter \cup { s \o c : s \in { t \in shorter : Len(t) = n - 1 }, c \in KeyChars }

PublicKeys == Strings(MaxKeyLen)

(***************************************************************************)
(* Accounts, requests and the wallet's single-RPC operations.              *)
(***************************************************************************)
Account(address, publicKey, privateKey) ==
    [Address |-> address, PublicKey |-> publicKey, PrivateKey |-> privateKey]
NoAccount == Account("", "", "")

\* CreateWatchOnlyAccount: the address of the key, no private key
CreateWatchOnlyAccount(publicKey) ==
    LET a == GenerateAddress(publicKey)
    IN  IF a.err /= NilErr
        THEN [isNil |-> TRUE, account |-> NoAccount,
              err |-> Err("local", 0, "failed to generate address")]
        ELSE [isNil |-> FALSE, account |-> Account(a.address, publicKey, ""),
              err |-> NilErr]

\* the accounts that send: two keys of one address, and the watch-only
\* accounts of the public keys tried
WatchOnlyAccounts ==
    { CreateWatchOnlyAccount(k).account : k \in { p \in PublicKeys : DecodeString(p).ok } }
Accounts == { Account("addrA", "aa", "a1"), Account("addrA", "aa", "a2") }
            \cup { a \in WatchOnlyAccounts : a.PublicKey \in {"", "0a"} }

TransactionRequest(to, amount, fee, memo, nonce) ==
    [To |-> to, Amount |-> amount, Fee |-> fee, Memo |-> memo, Nonce |-> nonce]
NoRequest == TransactionRequest("", "", "", "", 0)
Requests == { TransactionRequest("addrB", "100.0", "0.1", memo, nonce) :
                 memo \in {"", "hi"}, nonce \in {0, 7} }

\* the transaction hashes asked for
TxHashes == {"0xabc"}

\* GenerateTxID: the uuids drawn
TxIDs == {"uuid1", "uuid2"}

\* signTransaction: the mock signature over a fresh id; it never fails
signTransaction(request, privateKey, txid) ==
    [sig |-> "mock_signature_" \o txid, err |-> NilErr]

\* the tx map, had it carried the memo whether or not it is empty
TxPayload_MemoAlways(request, account, signature) ==
    [k \in {"sender", "recipient", "amount", "fee", "nonce", "signature", "memo"} |->
        CASE k = "sender" -> account.Address
          [] k = "recipient" -> request.To
          [] k = "amount" -> request.Amount
          [] k = "fee" -> request.Fee
          [] k = "nonce" -> request.Nonce
          [] k = "signature" -> signature
          [] k = "memo" -> request.Memo]

\* the tx map of SendTransaction
TxPayload(request, account, signature) ==
    [k \in {"sender", "recipient", "amount", "fee", "nonce", "signature"}
           \cup (IF request.Memo /= "" THEN {"memo"} ELSE {}) |->
        CASE k = "sender" -> account.Address
          [] k = "recipient" -> request.To
          [] k = "amount" -> request.Amount
          [] k = "fee" -> request.Fee
          [] k = "nonce" -> request.Nonce
          [] k = "signature" -> signature
          [] k = "memo" -> request.Memo]

\* a returned string
StrVal(s) == [str |-> s]

\* the value of an operation: what it returns, and what it did on the way
OpResult(isNil, val, err, calls, posts, wire) ==
    [isNil |-> isNil, val |-> val, err |-> err, calls |-> calls, posts |-> posts, wire |-> wire]

\* result[key].(string) on the decoded map
StringAt(map, key) ==
    IF key \in DOMAIN map.m /\ map.m[key].t = "str"
    THEN [ok |-> TRUE, s |-> map.m[key].s]
    ELSE [ok |-> FALSE, s |-> ""]

\* SendTransaction, had it returned result["hash"] without the type assertion
SendTransaction_UncheckedHash(endpoint, ctx, request, account, txid, net) ==
    IF account.PrivateKey = ""
    THEN OpResult(FALSE, StrVal(""), Err("local", 0, "account does not have a private key"), 0, 0, NoWire)
    ELSE LET signed == signTransaction(request, account.PrivateKey, txid)
             tx == TxPayload(request, account, signed.sig)
             r == Call(endpoint, ctx, "sendTransaction", PList(<<tx>>), MapSlot(NilMap), net)
             txHash == StringAt(r.slot.val, "hash")
         IN  IF r.err /= NilErr
             THEN OpResult(FALSE, StrVal(""), r.err, 1, r.posts, r.wire)
             ELSE OpResult(FALSE, StrVal(txHash.s), NilErr, 1, r.posts, r.wire)

\* SendTransaction, had it submitted the transaction of a watch-only account
SendTransaction_NoKeyCheck(endpoint, ctx, request, account, txid, net) ==
    LET signed == signTransaction(request, account.PrivateKey, txid)
        tx == TxPayload(request, account, signed.sig)
        r == Call(endpoint, ctx, "sendTransaction", PList(<<tx>>), MapSlot(NilMap), net)
        txHash == StringAt(r.slot.val, "hash")
    IN  IF r.err /= NilErr
        THEN OpResult(FALSE, StrVal(""), r.err, 1, r.posts, r.wire)
        ELSE IF txHash.ok
        THEN OpResult(FALSE, StrVal(txHash.s), NilErr, 1, r.posts, r.wire)
        ELSE OpResult(FALSE, StrVal(""), Err("local", 0, "invalid transaction response"),
                      1, r.posts, r.wire)

SendTransaction(endpoint, ctx, request, account, txid, net) ==
    IF account.PrivateKey = ""
    THEN OpResult(FALSE, StrVal(""), Err("local", 0, "account does not have a private key"), 0, 0, NoWire)
    ELSE LET signed == signTransaction(request, account.PrivateKey, txid)
         IN  IF signed.err /= NilErr
             THEN OpResult(FALSE, StrVal(""), Err("local", 0, "failed to sign transaction"), 0, 0, NoWire)
             ELSE LET tx == TxPayload(request, account, signed.sig)
                      r == Call(endpoint, ctx, "sendTransaction", PList(<<tx>>), MapSlot(NilMap), net)
                      txHash == StringAt(r.slot.val, "hash")
                  IN  IF r.err /= NilErr
                      THEN OpResult(FALSE, StrVal(""), r.err, 1, r.posts, r.wire)
                      ELSE IF txHash.ok
                      THEN OpResult(FALSE, StrVal(txHash.s), NilErr, 1, r.posts, r.wire)
                      ELSE OpResult(FALSE, StrVal(""), Err("local", 0, "invalid transaction response"),
                                    1, r.posts, r.wire)

\* ChertClient.GetTransaction: a pointer to the decoded struct, and Call's error
GetTransaction(endpoint, ctx, hash, net) ==
    LET r == Call(endpoint, ctx, "getTransaction", PList(<<hash>>),
                  StructSlot(TransactionShape, ZeroTransaction), net)
    IN  OpResult(FALSE, r.slot.val, r.err, 1, r.posts, r.wire)

(***************************************************************************)
(* The operations that make one Call and hand back what it decoded.        *)
(***************************************************************************)
\* result structs, by the members they decode (for the larger structs one
\* member of each field type)
NetworkStatusShape == [block_height |-> "uint64", network_id |-> "string"]
BlockShape == [height |-> "uint64", hash |-> "string"]
BalanceShape == [available |-> "string", pending |-> "string", total |-> "string"]
FeeShape == [amount |-> "string", gas_limit |-> "uint64", gas_price |-> "string"]
ValidatorShape == [address |-> "string", status |-> "string", delegator_count |-> "uint64"]
StakingRewardsShape == [total |-> "string", available |-> "string", pending |-> "string"]
ProposalShape == [id |-> "string", title |-> "string", status |-> "string"]
VoteTallyShape == [yes |-> "string", no |-> "string", abstain |-> "string"]
ProposalStatusShape == [status |-> "string"]
VotingPowerShape == [voting_power |-> "string"]

\* var result T: the zero value
Zero(shape) ==
    [k \in DOMAIN shape |->
        IF shape[k] = "string" THEN "" ELSE IF shape[k] = "uint64" THEN 0 ELSE NilSlice]

\* a method that decodes into a struct: its RPC method, whether it passes an
\* argument (and the arguments tried), the struct, and the member it returns
\* ("" when it returns a pointer to the whole struct)
Typed(method, args, shape, field) ==
    [method |-> method, args |-> args, shape |-> shape, field |-> field]
NoArg == {}

ClientTypedOps ==
    [GetNetworkStatus |-> Typed("getNetworkStatus", NoArg, NetworkStatusShape, ""),
     GetLatestBlock |-> Typed("getLatestBlock", NoArg, BlockShape, ""),
     GetBlock |-> Typed("getBlock", {7}, BlockShape, ""),
     GetTransaction |-> Typed("getTransaction", TxHashes, TransactionShape, "")]

WalletTypedOps ==
    [GetBalance |-> Typed("getBalance", {"addrA"}, BalanceShape, ""),
     EstimateFee |-> Typed("estimateFee", {TransactionRequest("addrB", "100.0", "0.1", "", 0)},
                           FeeShape, "")]

StakingTypedOps ==
    [GetValidator |-> Typed("getValidator", {"val1"}, ValidatorShape, ""),
     GetStakingRewards |-> Typed("getStakingRewards", {"addrA"}, StakingRewardsShape, "")]

GovernanceTypedOps ==
    [GetProposal |-> Typed("governance_getProposal", {"p1"}, ProposalShape, ""),
     GetProposalVotes |-> Typed("governance_getProposalVotes", {"p1"}, VoteTallyShape, ""),
     GetProposalStatus |-> Typed("governance_getProposalStatus", {"p1"},
                                 ProposalStatusShape, "status"),
     GetVotingPower |-> Typed("governance_getVotingPower", {"addrA"},
                              VotingPowerShape, "voting_power")]

TypedOpNames ==
    DOMAIN ClientTypedOps \cup DOMAIN WalletTypedOps
    \cup DOMAIN StakingTypedOps \cup DOMAIN GovernanceTypedOps

TypedOp(name) ==
    IF name \in DOMAIN ClientTypedOps THEN ClientTypedOps[name]
    ELSE IF name \in DOMAIN WalletTypedOps THEN WalletTypedOps[name]
    ELSE IF name \in DOMAIN StakingTypedOps THEN StakingTypedOps[name]
    ELSE GovernanceTypedOps[name]

\* var result T; err := Call(ctx, method, params, &result); return &result, err
\* (or return result.Field, err)
TypedCall(endpoint, ctx, spec, params, net) ==
    LET r == Call(endpoint, ctx, spec.method, params,
                  StructSlot(spec.shape, Zero(spec.shape)), net)
    IN  OpResult(FALSE,
                 IF spec.field = "" THEN r.slot.val ELSE StrVal(r.slot.val[spec.field]),
                 r.err, 1, r.posts, r.wire)

\* the parameter lists a typed operation may pass
TypedParams(spec) ==
    IF spec.args = NoArg THEN {PNil} ELSE { PList(<<a>>) : a \in spec.args }

\* what the node may answer to an operation that decodes into shape: each
\* member absent, a string or a number
TypedNets(shape) ==
    Nets({JNull, JStr("x"), JArr}
         \cup Objects([k \in DOMAIN shape |-> {JStr("v"), JNum(7)}]))

(***************************************************************************)
(* The operations that make one Call and hand back the list it decoded.    *)
(***************************************************************************)
\* var result struct { Xs []*X `json:"xs"` }; Call; return result.Xs, err
ListOps ==
    [GetValidators |-> Typed("getValidators", NoArg, [validators |-> "slice"], "validators"),
     GetDelegations |-> Typed("getDelegations", {"addrA"}, [delegations |-> "slice"],
                              "delegations"),
     GetProposals |-> Typed("governance_getProposals", {<<>>, [limit |-> 5]},
                            [proposals |-> "slice"], "proposals")]

ListCall(endpoint, ctx, spec, params, net) ==
    LET r == Call(endpoint, ctx, spec.method, params,
                  StructSlot(spec.shape, Zero(spec.shape)), net)
        list == r.slot.val[spec.field]
    IN  OpResult(list.isNil, list, r.err, 1, r.posts, r.wire)

\* what the node may answer to them: the member absent, an array, a string
ListNets(field) ==
    Nets({JNull, JStr("x"), JArr}
         \cup Objects([k \in {field, "other"} |-> {JArr, JStr("v"), JNull}]))

(***************************************************************************)
(* The operations that make one Call and hand back the map it decoded, and *)
(* IsConnected.                                                            *)
(***************************************************************************)
\* var result map[...]...; err := Call(ctx, method, params, &result);
\* return result, err
MapOps ==
    [GetVoterVotes |-> [method |-> "governance_getVoterVotes", args |-> {"addrA"},
                        slot |-> StrMapSlot(NilMap)],
     GetGovernanceStats |-> [method |-> "governance_getStats", args |-> NoArg,
                             slot |-> MapSlot(NilMap)]]

MapCall(endpoint, ctx, spec, params, net) ==
    LET r == Call(endpoint, ctx, spec.method, params, spec.slot, net)
    IN  OpResult(r.slot.val.isNil, r.slot.val, r.err, 1, r.posts, r.wire)

MapNets ==
    Nets({JNull, JStr("x"), JArr}
         \cup Objects([p1 |-> {JStr("yes"), JNum(7), JNull}, p2 |-> {JStr("no")}]))

\* a returned bool
BoolVal(b) == [bool |-> b]

\* IsConnected: GetNetworkStatus came back without an error
IsConnected(endpoint, ctx, net) ==
    LET r == TypedCall(endpoint, ctx, ClientTypedOps["GetNetworkStatus"], PNil, net)
    IN  OpResult(FALSE, BoolVal(r.err = NilErr), NilErr, r.calls, r.posts, r.wire)

(***************************************************************************)
(* The operations that make one Call and extract a string by key.          *)
(***************************************************************************)
\* its RPC method, the keys of the parameter map it builds from its
\* arguments, the key it extracts and the error text when that fails
Keyed(method, paramKeys, key, msg) ==
    [method |-> method, paramKeys |-> paramKeys, key |-> key, msg |-> msg]

StakingKeyedOps ==
    [Delegate |-> Keyed("staking_delegate", {"delegator", "validator", "amount", "fee"},
                        "tx_hash", "invalid delegation response"),
     Undelegate |-> Keyed("staking_undelegate", {"delegator", "validator", "amount", "fee"},
                          "tx_hash", "invalid undelegation response"),
     ClaimRewards |-> Keyed("staking_claimRewards", {"delegator", "validator", "fee"},
                            "tx_hash", "invalid claim rewards response"),
     RegisterValidator |-> Keyed("staking_registerValidator",
                                 {"validator", "owner_address", "fee"},
                                 "tx_hash", "invalid validator registration response"),
     UpdateCommission |-> Keyed("staking_updateCommission",
                                {"validator_address", "owner_address", "new_rate", "fee"},
                                "tx_hash", "invalid commission update response")]

GovernanceKeyedOps ==
    [CreateProposal |-> Keyed("governance_createProposal",
                              {"title", "description", "proposer", "fee"},
                              "proposal_id", "invalid proposal creation response"),
     Vote |-> Keyed("governance_vote", {"proposal_id", "voter", "option", "fee"},
                    "tx_hash", "invalid vote response"),
     ExecuteProposal |-> Keyed("governance_executeProposal",
                               {"proposal_id", "executor", "fee"},
                               "tx_hash", "invalid proposal execution response"),
     CancelProposal |-> Keyed("governance_cancelProposal",
                              {"proposal_id", "proposer", "fee"},
                              "tx_hash", "invalid proposal cancellation response")]

KeyedOpNames == DOMAIN StakingKeyedOps \cup DOMAIN GovernanceKeyedOps

KeyedOp(name) ==
    IF name \in DOMAIN StakingKeyedOps THEN StakingKeyedOps[name]
    ELSE GovernanceKeyedOps[name]

\* params := map[string]interface{}{...}; var result map[string]interface{};
\* Call; on an error return it; return result[key] when it is a string, and
\* the operation's "invalid ... response" error otherwise
\* KeyedCall, had it reported every failure as its own invalid response
KeyedCall_MasksError(endpoint, ctx, spec, args, net) ==
    LET r == Call(endpoint, ctx, spec.method, PList(<<args>>), MapSlot(NilMap), net)
        v == StringAt(r.slot.val, spec.key)
    IN  IF r.err = NilErr /\ v.ok
        THEN OpResult(FALSE, StrVal(v.s), NilErr, 1, r.posts, r.wire)
        ELSE OpResult(FALSE, StrVal(""), Err("local", 0, spec.msg), 1, r.posts, r.wire)

KeyedCall(endpoint, ctx, spec, args, net) ==
    LET r == Call(endpoint, ctx, spec.method, PList(<<args>>), MapSlot(NilMap), net)
        v == StringAt(r.slot.val, spec.key)
    IN  IF r.err /= NilErr
        THEN OpResult(FALSE, StrVal(""), r.err, 1, r.posts, r.wire)
        ELSE IF v.ok
        THEN OpResult(FALSE, StrVal(v.s), NilErr, 1, r.posts, r.wire)
        ELSE OpResult(FALSE, StrVal(""), Err("local", 0, spec.msg), 1, r.posts, r.wire)

\* the argument values tried for the parameters of a keyed operation
ArgValues == {"x"}

\* what the node may answer to an operation that extracts key
KeyedNets(key) ==
    Nets({JNull, JStr("0xabc"), JArr}
         \cup Objects([k \in {key, "other"} |-> {JStr("0xabc"), JStr(""), JNum(7), JNull}]))

(***************************************************************************)
(* The privacy manager.                                                    *)
(***************************************************************************)
\* the byte of a character (ASCII): digits, lower-case letters, A to F; any
\* other character of the model stands as '?'
CharCode(c) ==
    IF \E i \in 1..10 : HexDigits[i] = c
    THEN 47 + (CHOOSE i \in 1..10 : HexDigits[i] = c)
    ELSE IF \E i \in 1..26 : LowerLetters[i] = c
    THEN 96 + (CHOOSE i \in 1..26 : LowerLetters[i] = c)
    ELSE IF \E i \in 11..16 : UpperHexDigits[i] = c
    THEN 54 + (CHOOSE i \in 11..16 : UpperHexDigits[i] = c)
    ELSE 63

\* []byte(s)
Bytes(s) == [i \in 1..Len(s) |-> CharCode(CharAt(s, i))]

\* a ^ b on bytes
RECURSIVE Xor(_, _)
Xor(a, b) ==
    IF a = 0 /\ b = 0 THEN 0
    ELSE ((a + b) % 2) + 2 * Xor(a \div 2, b \div 2)

KeyPair(public, secret) == [Public |-> public, Secret |-> secret]
StealthKeys(view, spend) == [ViewKeypair |-> view, SpendKeypair |-> spend]
NoStealthKeys == StealthKeys(KeyPair("", ""), KeyPair("", ""))

\* what rand.Read gives a generateKeyPair: an error, or the random bytes
\* (two of them stand for the 32)
RandFails == [ok |-> FALSE, bytes |-> <<>>]
RandBytes(bytes) == [ok |-> TRUE, bytes |-> bytes]
RandDraws == {RandFails, RandBytes(<<171, 1>>), RandBytes(<<205, 2>>)}

\* PrivacyManager.generateKeyPair: the public key is a copy of the private
generateKeyPair(draw) ==
    IF ~draw.ok
    THEN [private |-> "", public |-> "",
          err |-> Err("local", 0, "failed to generate random bytes")]
    ELSE [private |-> EncodeToString(draw.bytes), public |-> EncodeToString(draw.bytes),
          err |-> NilErr]

GenerateStealthKeys(viewDraw, spendDraw) ==
    LET view == generateKeyPair(viewDraw)
        spend == generateKeyPair(spendDraw)
    IN  IF view.err /= NilErr
        THEN [isNil |-> TRUE, keys |-> NoStealthKeys,
              err |-> Err("local", 0, "failed to generate view keypair")]
        ELSE IF spend.err /= NilErr
        THEN [isNil |-> TRUE, keys |-> NoStealthKeys,
              err |-> Err("local", 0, "failed to generate spend keypair")]
        ELSE [isNil |-> FALSE,
              keys |-> StealthKeys(KeyPair(view.public, view.private),
                                   KeyPair(spend.public, spend.private)),
              err |-> NilErr]

\* the hex of the digest of the two keys joined; it never fails
DeriveSharedSecret(viewKey, recipientViewKey) ==
    [secret |-> EncodeToString(Sum256(Bytes(viewKey \o recipientViewKey))), err |-> NilErr]

\* EncryptMemo: each byte of the memo xor the byte of the secret at its index
\* modulo the length of the secret; with a memo and an empty secret that
\* index is a division by zero and the call panics
EncryptMemo(memo, sharedSecret) ==
    LET secretBytes == DecodeString(sharedSecret)
        memoBytes == Bytes(memo)
    IN  IF ~secretBytes.ok
        THEN [val |-> "", err |-> Err("local", 0, "invalid shared secret")]
        ELSE IF memoBytes /= <<>> /\ secretBytes.bytes = <<>>
        THEN [val |-> "", err |-> Err("panic", 0, "integer divide by zero")]
        ELSE [val |-> EncodeToString(
                         [i \in 1..Len(memoBytes) |->
                             Xor(memoBytes[i],
                                 secretBytes.bytes[((i - 1) % Len(secretBytes.bytes)) + 1])]),
              err |-> NilErr]

\* the character of a byte, the reverse of CharCode
Chr(b) ==
    IF b \in 48..57 THEN HexDigits[b - 47]
    ELSE IF b \in 97..122 THEN LowerLetters[b - 96]
    ELSE IF b \in 65..70 THEN UpperHexDigits[b - 54]
    ELSE "?"

\* string(bytes)
RECURSIVE String(_)
String(bytes) ==
    IF bytes = <<>> THEN "" ELSE Chr(Head(bytes)) \o String(Tail(bytes))

\* DecryptMemo: the bytes of the hex ciphertext, each xor the byte of the
\* secret at its index modulo the length of the secret; with a ciphertext
\* and an empty secret that index is a division by zero and the call panics
DecryptMemo(encryptedMemo, sharedSecret) ==
    LET encryptedBytes == DecodeString(encryptedMemo)
        secretBytes == DecodeString(sharedSecret)
    IN  IF ~encryptedBytes.ok
        THEN [val |-> "", err |-> Err("local", 0, "invalid encrypted memo")]
        ELSE IF ~secretBytes.ok
        THEN [val |-> "", err |-> Err("local", 0, "invalid shared secret")]
        ELSE IF encryptedBytes.bytes /= <<>> /\ secretBytes.bytes = <<>>
        THEN [val |-> "", err |-> Err("panic", 0, "integer divide by zero")]
        ELSE [val |-> String(
                         [i \in 1..Len(encryptedBytes.bytes) |->
                             Xor(encryptedBytes.bytes[i],
                                 secretBytes.bytes[((i - 1) % Len(secretBytes.bytes)) + 1])]),
              err |-> NilErr]

\* the memos and the shared secrets tried: secrets of no, one and two
\* bytes, of either case, and ones that are no hex
Memos == {"", "a", "hi", "0f9"}
SharedSecrets == {"", "00", "5a", "AB01", "0g", "abc"}

\* the ciphertexts tried: those of the memos, and ones that are no hex
Ciphertexts ==
    { EncryptMemo(memo, sharedSecret).val : memo \in Memos, sharedSecret \in SharedSecrets }
    \cup {"3B", "0g", "abc"}

PrivateTransactionRequest(senderKeys, amount, fee, memo, privacyLevel, nonce) ==
    [SenderKeys |-> senderKeys, Amount |-> amount, Fee |-> fee, Memo |-> memo,
     PrivacyLevel |-> privacyLevel, Nonce |-> nonce]

\* the tx map of SendPrivateTransaction
PrivateTxPayload(request, recipientViewKey, recipientSpendKey, ephemeralKeys, encryptedMemo) ==
    [k \in {"sender_keys", "recipient_view_key", "recipient_spend_key", "ephemeral_keys",
            "amount", "fee", "privacy_level", "nonce"}
           \cup (IF encryptedMemo /= "" THEN {"encrypted_memo"} ELSE {}) |->
        CASE k = "sender_keys" -> request.SenderKeys
          [] k = "recipient_view_key" -> recipientViewKey
          [] k = "recipient_spend_key" -> recipientSpendKey
          [] k = "ephemeral_keys" -> ephemeralKeys
          [] k = "amount" -> request.Amount
          [] k = "fee" -> request.Fee
          [] k = "privacy_level" -> request.PrivacyLevel
          [] k = "nonce" -> request.Nonce
          [] k = "encrypted_memo" -> encryptedMemo]

\* SendPrivateTransaction, had it taken a missing tx_id for the empty id
SendPrivateTransaction_UncheckedID(endpoint, ctx, request, recipientViewKey, recipientSpendKey, viewDraw, spendDraw, net) ==
    LET ephemeralKeys == GenerateStealthKeys(viewDraw, spendDraw)
        sharedSecret == DeriveSharedSecret(request.SenderKeys.ViewKeypair.Secret, recipientViewKey)
        enc == IF request.Memo /= "" THEN EncryptMemo(request.Memo, sharedSecret.secret)
               ELSE [val |-> "", err |-> NilErr]
        tx == PrivateTxPayload(request, recipientViewKey, recipientSpendKey,
                               ephemeralKeys.keys, enc.val)
        r == Call(endpoint, ctx, "sendPrivateTransaction", PList(<<tx>>), MapSlot(NilMap), net)
        txID == StringAt(r.slot.val, "tx_id")
    IN  IF ephemeralKeys.err /= NilErr
        THEN OpResult(FALSE, StrVal(""), Err("local", 0, "failed to generate ephemeral keys"),
                      0, 0, NoWire)
        ELSE IF r.err /= NilErr
        THEN OpResult(FALSE, StrVal(""), r.err, 1, r.posts, r.wire)
        ELSE OpResult(FALSE, StrVal(txID.s), NilErr, 1, r.posts, r.wire)

SendPrivateTransaction(endpoint, ctx, request, recipientViewKey, recipientSpendKey, viewDraw, spendDraw, net) ==
    LET ephemeralKeys == GenerateStealthKeys(viewDraw, spendDraw)
        sharedSecret == DeriveSharedSecret(request.SenderKeys.ViewKeypair.Secret, recipientViewKey)
        enc == IF request.Memo /= "" THEN EncryptMemo(request.Memo, sharedSecret.secret)
               ELSE [val |-> "", err |-> NilErr]
        tx == PrivateTxPayload(request, recipientViewKey, recipientSpendKey,
                               ephemeralKeys.keys, enc.val)
        r == Call(endpoint, ctx, "sendPrivateTransaction", PList(<<tx>>), MapSlot(NilMap), net)
        txID == StringAt(r.slot.val, "tx_id")
    IN  IF ephemeralKeys.err /= NilErr
        THEN OpResult(FALSE, StrVal(""), Err("local", 0, "failed to generate ephemeral keys"),
                      0, 0, NoWire)
        ELSE IF sharedSecret.err /= NilErr
        THEN OpResult(FALSE, StrVal(""), Err("local", 0, "failed to derive shared secret"),
                      0, 0, NoWire)
        ELSE IF enc.err /= NilErr
        THEN OpResult(FALSE, StrVal(""), Err("local", 0, "failed to encrypt memo"), 0, 0, NoWire)
        ELSE IF r.err /= NilErr
        THEN OpResult(FALSE, StrVal(""), r.err, 1, r.posts, r.wire)
        ELSE IF txID.ok
        THEN OpResult(FALSE, StrVal(txID.s), NilErr, 1, r.posts, r.wire)
        ELSE OpResult(FALSE, StrVal(""), Err("local", 0, "invalid private transaction response"),
                      1, r.posts, r.wire)

StealthAccount(address, viewKey, spendPublicKey) ==
    [Address |-> address, ViewKey |-> viewKey, SpendPublicKey |-> spendPublicKey]
NoStealthAccount == StealthAccount("", "", "")

\* GenerateStealthAddress: the account of the address the node made, with
\* the view key and the spend public key when the node sent them as strings
GenerateStealthAddress(endpoint, ctx, includeSecrets, net) ==
    LET params == [include_secrets |-> includeSecrets]
        r == Call(endpoint, ctx, "privacy_generateStealthAddress", PList(<<params>>),
                  MapSlot(NilMap), net)
        address == StringAt(r.slot.val, "address")
        viewKey == StringAt(r.slot.val, "view_key")
        spendPublicKey == StringAt(r.slot.val, "spend_public_key")
    IN  IF r.err /= NilErr
        THEN OpResult(TRUE, NoStealthAccount, r.err, 1, r.posts, r.wire)
        ELSE IF ~address.ok
        THEN OpResult(TRUE, NoStealthAccount, Err("local", 0, "invalid stealth address response"),
                      1, r.posts, r.wire)
        ELSE OpResult(FALSE, StealthAccount(address.s, viewKey.s, spendPublicKey.s), NilErr,
                      1, r.posts, r.wire)

\* the private requests tried, and the recipient's keys
SenderStealthKeys == StealthKeys(KeyPair("0a", "0b"), KeyPair("0c", "0d"))
PrivateRequests ==
    { PrivateTransactionRequest(SenderStealthKeys, "100.0", "0.1", memo, "stealth", 7) :
         memo \in {"", "hi"} }
RecipientKeys == {[view |-> "1a", spend |-> "1b"]}

\* what the node may answer to them
PrivateNets ==
    Nets({JNull, JStr("id1"), JArr}
         \cup Objects([tx_id |-> {JStr("id1"), JStr(""), JNum(7), JNull},
                       other |-> {JStr("x")}]))
StealthNets ==
    Nets({JNull, JStr("st1"), JArr}
         \cup Objects([address |-> {JStr("st1"), JStr(""), JNum(7), JNull},
                       view_key |-> {JStr("vk"), JNum(7)},
                       spend_public_key |-> {JStr("sk")}]))

\* the key and the error text of the privacy operations that extract
PrivacyKeyedOps ==
    [SendPrivateTransaction |->
         Keyed("sendPrivateTransaction",
               {"sender_keys", "recipient_view_key", "recipient_spend_key", "ephemeral_keys",
                "amount", "fee", "privacy_level", "nonce"},
               "tx_id", "invalid private transaction response"),
     GenerateStealthAddress |->
         Keyed("privacy_generateStealthAddress", {"include_secrets"},
               "address", "invalid stealth address response")]

(***************************************************************************)
(* WalletManager.WaitForTransaction, one loop iteration.                   *)
(***************************************************************************)
\* the returns of WaitForTransaction
NoReturn == OpResult(TRUE, ZeroTransaction, NilErr, 0, 0, NoWire)
WaitReturn(isNil, tx, err) == OpResult(isNil, tx, err, 0, 0, NoWire)

\* timeoutMs and startTime are uint64.  A uint64 is written as its two's
\* complement reading: n >= 0 is the value n, and -d is the value 2^64 - d.
\* Addition modulo 2^64 is then the addition of the readings (the sum of a
\* negative reading and a positive one passes through 0 where the uint64
\* wraps), and the unsigned order puts every negative reading above every
\* non-negative one.
Add64(a, b) == a + b
Less64(a, b) == IF (a < 0) = (b < 0) THEN a < b ELSE b < 0

\* 2^64 modulo the interval, from 2^16 by squaring twice: the largest
\* multiple of the interval in a uint64 is 2^64 - TopRemainder
TopRemainder == ((((65536 % Interval) ^ 2) % Interval) ^ 2) % Interval

IsTerminal(status) == status \in {TxStatusConfirmed, TxStatusFailed, TxStatusRejected}

\* PollStep, had it given up on the first fetch that fails
PollStep_FailFast(g, elapsed) ==
    IF g.err /= NilErr
    THEN [pc |-> "done", startTime |-> elapsed, ret |-> WaitReturn(TRUE, ZeroTransaction, g.err)]
    ELSE IF g.val.status = TxStatusConfirmed
    THEN [pc |-> "done", startTime |-> elapsed, ret |-> WaitReturn(FALSE, g.val, NilErr)]
    ELSE IF g.val.status = TxStatusFailed \/ g.val.status = TxStatusRejected
    THEN [pc |-> "done", startTime |-> elapsed,
          ret |-> WaitReturn(TRUE, ZeroTransaction,
                             Err("local", 0, "transaction " \o g.val.status))]
    ELSE [pc |-> "loop", startTime |-> Add64(elapsed, Interval), ret |-> NoReturn]

\* PollStep, had it returned a fresh Transaction instead of the fetched one
PollStep_FreshTransaction(g, elapsed) ==
    IF g.err /= NilErr
    THEN [pc |-> "loop", startTime |-> elapsed, ret |-> NoReturn]
    ELSE IF g.val.status = TxStatusConfirmed
    THEN [pc |-> "done", startTime |-> elapsed,
          ret |-> WaitReturn(FALSE, [ZeroTransaction EXCEPT !.status = TxStatusConfirmed], NilErr)]
    ELSE IF g.val.status = TxStatusFailed \/ g.val.status = TxStatusRejected
    THEN [pc |-> "done", startTime |-> elapsed,
          ret |-> WaitReturn(TRUE, ZeroTransaction,
                             Err("local", 0, "transaction " \o g.val.status))]
    ELSE [pc |-> "loop", startTime |-> Add64(elapsed, Interval), ret |-> NoReturn]

\* PollStep, had it taken rejected for a status to keep polling on
PollStep_RejectedPolls(g, elapsed) ==
    IF g.err /= NilErr
    THEN [pc |-> "loop", startTime |-> elapsed, ret |-> NoReturn]
    ELSE IF g.val.status = TxStatusConfirmed
    THEN [pc |-> "done", startTime |-> elapsed, ret |-> WaitReturn(FALSE, g.val, NilErr)]
    ELSE IF g.val.status = TxStatusFailed
    THEN [pc |-> "done", startTime |-> elapsed,
          ret |-> WaitReturn(TRUE, ZeroTransaction,
                             Err("local", 0, "transaction " \o g.val.status))]
    ELSE [pc |-> "loop", startTime |-> Add64(elapsed, Interval), ret |-> NoReturn]

\* PollStep, had a fetch that fails used up budget as well
PollStep_FailedFetchCounts(g, elapsed) ==
    IF g.err /= NilErr
    THEN [pc |-> "loop", startTime |-> Add64(elapsed, Interval), ret |-> NoReturn]
    ELSE IF g.val.status = TxStatusConfirmed
    THEN [pc |-> "done", startTime |-> elapsed, ret |-> WaitReturn(FALSE, g.val, NilErr)]
    ELSE IF g.val.status = TxStatusFailed \/ g.val.status = TxStatusRejected
    THEN [pc |-> "done", startTime |-> elapsed,
          ret |-> WaitReturn(TRUE, ZeroTransaction,
                             Err("local", 0, "transaction " \o g.val.status))]
    ELSE [pc |-> "loop", startTime |-> Add64(elapsed, Interval), ret |-> NoReturn]

\* the loop body after the fetch g came back, with the counter at elapsed:
\* where the loop goes, the counter, and the return value when it returns
PollStep(g, elapsed) ==
    IF g.err /= NilErr
    THEN [pc |-> "loop", startTime |-> elapsed, ret |-> NoReturn]
    ELSE IF g.val.status = TxStatusConfirmed
    THEN [pc |-> "done", startTime |-> elapsed, ret |-> WaitReturn(FALSE, g.val, NilErr)]
    ELSE IF g.val.status = TxStatusFailed \/ g.val.status = TxStatusRejected
    THEN [pc |-> "done", startTime |-> elapsed,
          ret |-> WaitReturn(TRUE, ZeroTransaction,
                             Err("local", 0, "transaction " \o g.val.status))]
    ELSE [pc |-> "loop", startTime |-> Add64(elapsed, Interval), ret |-> NoReturn]

(***************************************************************************)
(* RPCClient.Call as the steps of one caller among several that share the  *)
(* client.  A caller holds its arguments, its own result slot, the request *)
(* it built and the response handed to it; net is the node's answer to the *)
(* request of this caller.                                                 *)
(***************************************************************************)
Callers == {"g1", "g2"}

NoCall ==
    [stage |-> "out", ctx |-> "live", method |-> "", params |-> PNil,
     slot0 |-> NoSlot, slot |-> NoSlot, req |-> NoWire,
     net |-> NetFail("refused"), resp |-> MalformedBody, err |-> NilErr]

\* the caller enters Call with its arguments
EnterCall(c, method, params, slot0) ==
    [NoCall EXCEPT !.ctx = c, !.method = method, !.params = params,
                   !.slot0 = slot0, !.slot = slot0]

\* the envelope is marshalled and the request is built for c.endpoint, with
\* its Content-Type
BuildRequest(transport, call) ==
    IF call.params.t = "bad"
    THEN [call EXCEPT !.stage = "returned", !.err = Err("marshal", 0, "")]
    ELSE IF ~EndpointParses(transport.endpoint)
    THEN [call EXCEPT !.stage = "returned", !.err = Err("create", 0, "")]
    ELSE [call EXCEPT !.stage = "built",
                      !.req = HTTPRequest(MarshalRequest(call.method, call.params),
                                          Set(NoHeaders, "Content-Type", "application/json"))]

\* c.client.Do(req): nothing is sent under a context that is done; a failed
\* exchange is returned as an error; otherwise the caller holds the response
\* to its request
Do(call, net) ==
    IF call.ctx /= "live"
    THEN [call EXCEPT !.stage = "returned", !.err = Err("send", 0, call.ctx)]
    ELSE IF net.kind /= "body"
    THEN [call EXCEPT !.stage = "returned", !.net = net, !.err = Err("send", 0, net.kind)]
    ELSE [call EXCEPT !.stage = "answered", !.net = net, !.resp = net.body]

\* the response is decoded, its error member returned, its result
\* unmarshalled into the slot of this caller
DecodeResponse(call) ==
    LET body == call.resp
    IN  IF ~body.ok \/ body.error.t = "bad"
        THEN [call EXCEPT !.stage = "returned", !.err = Err("decode", 0, "")]
        ELSE IF body.error.t = "obj"
        THEN [call EXCEPT !.stage = "returned",
                          !.err = Err("rpc", body.error.code, body.error.message)]
        ELSE IF call.slot.kind /= "none" /\ body.result.t /= "null"
        THEN LET u == Unmarshal(body.result, call.slot)
             IN  [call EXCEPT !.stage = "returned", !.err = u.err, !.slot = u.slot]
        ELSE [call EXCEPT !.stage = "returned", !.err = NilErr]

\* the calls the callers make: the one of GetTransaction, the one of
\* GetGovernanceStats, and one whose params cannot be marshalled
ConcurrentCalls ==
    { [method |-> "getTransaction", params |-> PList(<<"0xabc">>),
       slot0 |-> StructSlot(TransactionShape, ZeroTransaction)],
      [method |-> "getGovernanceStats", params |-> PNil, slot0 |-> MapSlot(NilMap)],
      [method |-> "getBlock", params |-> PBad, slot0 |-> NoSlot] }

\* what the node answers them
ConcurrentNets ==
    { NetFail("refused"),
      NetBody(MalformedBody),
      NetBody(Body(TRUE, ErrorObject(-32000, "not found"), JNull)),
      NetBody(Body(TRUE, NoErrorMember, JNull)),
      NetBody(Body(TRUE, NoErrorMember,
                   JObj([hash |-> JStr("0xabc"), status |-> JStr(TxStatusConfirmed)]))),
      NetBody(Body(TRUE, NoErrorMember,
                   JObj([hash |-> JStr("0xdef"), status |-> JNum(7)]))) }

(***************************************************************************)
(* State.                                                                  *)
(***************************************************************************)
VARIABLES
    client,     \* the ChertClient NewClient makes; never written afterwards
    ctx,        \* the context of the running call: "live", "canceled", "deadline"
    op,         \* the operation running or just returned, "none" when idle
    pc,         \* "new" (before NewClient), "idle", "loop" (inside
                \* WaitForTransaction), "done" (returned)
    timeoutMs,  \* WaitForTransaction: the budget after defaulting
    startTime,  \* WaitForTransaction: the elapsed-budget counter
    fetches,    \* GetTransaction calls made by the running WaitForTransaction
    fails,      \* how many of them returned an error (counted up to MaxFails)
    last,       \* the outcome of the latest of them; turn alternates per fetch
    calls,      \* RPCClient.Call invocations of the running operation
    posts,      \* HTTP POSTs issued by the running operation
    given,      \* the configuration the caller passed to NewClient
    inp,        \* the arguments of the running operation, the node's answer, and
                \* the signature a SendTransaction that runs step by step holds
    wire,       \* the envelope of the latest request sent
    slot,       \* the result slot of a direct Call, after the call
    ret,        \* what the operation returned
    callers     \* callers that are inside RPCClient.Call at the same time

vars == <<client, given, ctx, op, pc, timeoutMs, startTime, fetches, fails, last,
          calls, posts, inp, wire, slot, ret, callers>>

Input(c, request, account, slot0, net) ==
    [ctx |-> c, request |-> request, account |-> account, slot |-> slot0, net |-> net,
     method |-> "", params |-> PNil, signature |-> ""]
\* the arguments of a direct Call
CallInput(c, method, params, slot0, net) ==
    [ctx |-> c, request |-> NoRequest, account |-> NoAccount, slot |-> slot0, net |-> net,
     method |-> method, params |-> params, signature |-> ""]
NoInput == Input("live", NoRequest, NoAccount, NoSlot, NetFail("refused"))
NoFetch == [tx |-> ZeroTransaction, err |-> NilErr, turn |-> 0]

CtxStates == {"live", "canceled", "deadline"}
TimeoutChoices == {0} \cup { 1000 * k : k \in 1..MaxTimeoutK }

Init ==
    /\ given \in Configs
    /\ client = NoClient
    /\ ctx = "live"
    /\ op = "none"
    /\ pc = "new"
    /\ timeoutMs = 0
    /\ startTime = 0
    /\ fetches = 0
    /\ fails = 0
    /\ last = NoFetch
    /\ calls = 0
    /\ posts = 0
    /\ inp = NoInput
    /\ wire = NoWire
    /\ slot = NoSlot
    /\ ret = NoReturn
    /\ callers = [i \in Callers |-> NoCall]

(***************************************************************************)
(* NewClient(config)                                                       *)
(***************************************************************************)
Construct ==
    /\ pc = "new"
    /\ client' = NewClient(given)
    /\ pc' = "idle"
    /\ UNCHANGED <<given, ctx, op, timeoutMs, startTime, fetches, fails, last,
                   calls, posts, inp, wire, slot, ret, callers>>

(***************************************************************************)
(* WaitForTransaction(ctx, txHash, timeoutMs)                              *)
(***************************************************************************)
\* the prologue: the default budget, the counter at zero
WaitStart ==
    /\ pc = "idle"
    /\ \E c \in CtxStates, t \in TimeoutChoices :
        /\ op' = "WaitForTransaction"
        /\ pc' = "loop"
        /\ ctx' = c
        /\ inp' = [timeoutMs |-> t] @@ Input(c, NoRequest, NoAccount, NoSlot, NetFail("refused"))
        /\ timeoutMs' = IF t = 0 THEN DefaultTimeoutMs ELSE t
        /\ startTime' = 0
    /\ UNCHANGED <<callers, client, given, fetches, fails, last, calls, posts, wire, slot, ret>>

\* the endpoints a constructed client can hold
Endpoints == { NewClient(config).rpcClient.endpoint : config \in Configs }

\* c.GetTransaction(ctx, txHash) of the loop, tabulated over what it depends on
FetchTransaction ==
    [endpoint \in Endpoints, c \in CtxStates, hash \in TxHashes, net \in FetchNets |->
        GetTransaction(endpoint, c, hash, net)]

\* WaitFetch, had the loop condition been startTime <= timeoutMs
WaitFetch_InclusiveBudget ==
    /\ pc = "loop"
    /\ ~Less64(timeoutMs, startTime)
    /\ \E hash \in TxHashes, net \in FetchNets :
       \E g \in { FetchTransaction[client.rpcClient.endpoint, ctx, hash, net] } :
       \E step \in { PollStep(g, startTime) } :
       \E counted \in { g.err = NilErr \/ fails < MaxFails } :
           /\ ctx' = CtxAfter(ctx, net)
           /\ last' = [tx |-> g.val, err |-> g.err, turn |-> 1 - last.turn]
           /\ fetches' = IF counted THEN fetches + 1 ELSE fetches
           /\ calls' = IF counted THEN calls + g.calls ELSE calls
           /\ posts' = IF counted THEN posts + g.posts ELSE posts
           /\ fails' = IF g.err /= NilErr /\ fails < MaxFails THEN fails + 1 ELSE fails
           /\ wire' = IF g.posts > 0 THEN g.wire ELSE wire
           /\ pc' = step.pc
           /\ startTime' = step.startTime
           /\ ret' = step.ret
    /\ UNCHANGED <<callers, client, given, op, timeoutMs, inp, slot>>

\* one iteration: the loop condition holds, the transaction is fetched and
\* the body runs.  Once MaxFails failing fetches are counted, a further
\* failing fetch still happens but leaves the counters of the model alone.
WaitFetch ==
    /\ pc = "loop"
    /\ Less64(startTime, timeoutMs)
    /\ \E hash \in TxHashes, net \in FetchNets :
       \E g \in { FetchTransaction[client.rpcClient.endpoint, ctx, hash, net] } :
       \E step \in { PollStep(g, startTime) } :
       \E counted \in { g.err = NilErr \/ fails < MaxFails } :
           /\ ctx' = CtxAfter(ctx, net)
           /\ last' = [tx |-> g.val, err |-> g.err, turn |-> 1 - last.turn]
           /\ fetches' = IF counted THEN fetches + 1 ELSE fetches
           /\ calls' = IF counted THEN calls + g.calls ELSE calls
           /\ posts' = IF counted THEN posts + g.posts ELSE posts
           /\ fails' = IF g.err /= NilErr /\ fails < MaxFails THEN fails + 1 ELSE fails
           /\ wire' = IF g.posts > 0 THEN g.wire ELSE wire
           /\ pc' = step.pc
           /\ startTime' = step.startTime
           /\ ret' = step.ret
    /\ UNCHANGED <<callers, client, given, op, timeoutMs, inp, slot>>

\* the loop condition fails: the budget is used up
WaitTimeout ==
    /\ pc = "loop"
    /\ ~Less64(startTime, timeoutMs)
    /\ pc' = "done"
    /\ ret' = WaitReturn(TRUE, ZeroTransaction, Err("local", 0, "transaction confirmation timeout"))
    /\ UNCHANGED <<callers, client, given, ctx, op, timeoutMs, startTime, fetches, fails, last,
                   calls, posts, inp, wire, slot>>

(***************************************************************************)
(* WaitForTransaction with a timeout at the top of the uint64 range.  The  *)
(* loop then runs for about 2^64 / 2000 iterations before the counter      *)
(* comes near the timeout: the iterations up to there are taken as one     *)
(* step, the ones near the top one by one.                                 *)
(***************************************************************************)
\* timeouts within 2000 of 2^64 and just below
LongTimeouts ==
    { -1, -(TopRemainder - 1), -TopRemainder, -(TopRemainder + 1),
      -(Interval - 1), -Interval, -(Interval + 1) }

\* the counters near the top that the steps one by one start from: the last
\* values below 2^64 that 2000 a time lead to from elapsed without wrapping
LateCounters(elapsed) ==
    { n \in { (elapsed % Interval) - TopRemainder - Interval * j : j \in 0..2 } : n < 0 }

WaitStartLong ==
    /\ pc = "idle"
    /\ \E c \in CtxStates, t \in LongTimeouts :
        /\ op' = "WaitForTransaction"
        /\ pc' = "loop"
        /\ ctx' = c
        /\ inp' = [timeoutMs |-> t] @@ Input(c, NoRequest, NoAccount, NoSlot, NetFail("refused"))
        /\ timeoutMs' = IF t = 0 THEN DefaultTimeoutMs ELSE t
        /\ startTime' = 0
    /\ UNCHANGED <<callers, client, given, fetches, fails, last, calls, posts, wire, slot, ret>>

\* a run of iterations, each a fetch that succeeds with one and the same
\* non-terminal answer: the counter goes by 2000 a time, without wrapping,
\* from a value at the bottom of the range to target near the top, and the
\* loop condition held before the last of them (so before each).  The
\* fetches of the run are beyond what fetches, calls and posts count.  The
\* loop is followed up to the first time its counter wraps: a run starts at
\* a multiple of 2000.
WaitFetchMany ==
    /\ pc = "loop"
    /\ ctx = "live"
    /\ startTime >= 0 /\ startTime % Interval = 0 /\ timeoutMs < 0
    /\ \E hash \in TxHashes, net \in FetchNets :
       \E g \in { FetchTransaction[client.rpcClient.endpoint, ctx, hash, net] } :
       \E target \in LateCounters(startTime), turn \in {0, 1} :
           /\ g.err = NilErr /\ ~IsTerminal(g.val.status)
           /\ Less64(target - Interval, timeoutMs)
           /\ PollStep(g, target - Interval).startTime = target
           /\ startTime' = target
           /\ last' = [tx |-> g.val, err |-> g.err, turn |-> turn]
           /\ wire' = g.wire
    /\ UNCHANGED <<callers, client, given, ctx, op, pc, timeoutMs, fetches, fails, calls, posts,
                   inp, slot, ret>>

\* an iteration with the counter near the top
WaitFetchLate == startTime < 0 /\ WaitFetch

\* the caller cancels the context, or its deadline passes, while the loop runs
CancelContext ==
    /\ pc = "loop"
    /\ ctx = "live"
    /\ ctx' \in {"canceled", "deadline"}
    /\ UNCHANGED <<callers, client, given, op, pc, timeoutMs, startTime, fetches, fails, last,
                   calls, posts, inp, wire, slot, ret>>

(***************************************************************************)
(* The single-RPC operations; each action is the whole method.             *)
(***************************************************************************)
\* an operation called with the arguments in, which ran to its return r
Finish(name, in, r) ==
    /\ op' = name
    /\ pc' = "done"
    /\ ctx' = CtxAfter(in.ctx, in.net)
    /\ inp' = in
    /\ calls' = r.calls
    /\ posts' = r.posts
    /\ wire' = r.wire
    /\ ret' = r
    /\ UNCHANGED <<callers, client, given, timeoutMs, startTime, fetches, fails, last>>

\* the result slots a direct caller passes: none, a struct (fresh or already
\* holding values), a map (nil or already holding an entry)
DirectSlots ==
    { NoSlot,
      StructSlot(TransactionShape, ZeroTransaction),
      StructSlot(TransactionShape, [hash |-> "old", status |-> "old", nonce |-> 1]),
      MapSlot(NilMap),
      MapSlot([isNil |-> FALSE, m |-> [old |-> JStr("old")]]) }

DirectParams ==
    { PNil, PList(<<>>), PList(<<"0xabc">>), PStrings(<<"0xabc", "hi">>),
      PStrings(<<"0x#">>), PBad }

\* the method names and parameters a direct caller passes
DirectRequests ==
    { [method |-> "getTransaction", params |-> p] : p \in DirectParams }
    \cup { [method |-> "get#", params |-> PNil] }

\* the direct calls tried: one request with every slot against every answer,
\* every request without a slot against a refusal and an empty answer, and
\* params that cannot be marshalled with every slot
DirectInputs ==
    { [q |-> [method |-> "getTransaction", params |-> PList(<<"0xabc">>)],
       slot |-> slot0, net |-> net] : slot0 \in DirectSlots, net \in TxNets }
    \cup { [q |-> q, slot |-> NoSlot, net |-> net] :
              q \in DirectRequests,
              net \in {NetFail("refused"), NetBody(Body(TRUE, NoErrorMember, JNull))} }
    \cup { [q |-> [method |-> "getTransaction", params |-> PBad],
            slot |-> slot0, net |-> NetFail("refused")] : slot0 \in DirectSlots }

\* a caller of RPCClient.Call itself
DirectCall ==
    /\ pc = "idle"
    /\ \E c \in CtxStates, in \in DirectInputs :
       \E r \in { Call(client.rpcClient.endpoint, c, in.q.method, in.q.params, in.slot, in.net) } :
           /\ Finish("Call", CallInput(c, in.q.method, in.q.params, in.slot, in.net),
                     OpResult(FALSE, StrVal(""), r.err, 1, r.posts, r.wire))
           /\ slot' = r.slot

DoSendTransaction ==
    /\ pc = "idle"
    /\ \E c \in CtxStates, request \in Requests, account \in Accounts,
          txid \in TxIDs, net \in SendNets :
       \E r \in { SendTransaction(client.rpcClient.endpoint, c, request, account, txid, net) } :
           /\ Finish("SendTransaction", Input(c, request, account, NoSlot, net), r)
           /\ UNCHANGED slot

\* a client or manager method that decodes its result into a struct
DoTypedOp ==
    /\ pc = "idle"
    /\ \E name \in TypedOpNames, c \in CtxStates :
       \E params \in TypedParams(TypedOp(name)), net \in TypedNets(TypedOp(name).shape) :
       \E r \in { TypedCall(client.rpcClient.endpoint, c, TypedOp(name), params, net) } :
           /\ Finish(name, Input(c, NoRequest, NoAccount, NoSlot, net), r)
           /\ UNCHANGED slot

\* a manager method that decodes a list
DoListOp ==
    /\ pc = "idle"
    /\ \E name \in DOMAIN ListOps, c \in CtxStates :
       \E params \in TypedParams(ListOps[name]), net \in ListNets(ListOps[name].field) :
       \E r \in { ListCall(client.rpcClient.endpoint, c, ListOps[name], params, net) } :
           /\ Finish(name, Input(c, NoRequest, NoAccount, NoSlot, net), r)
           /\ UNCHANGED slot

\* a manager method that decodes a map
DoMapOp ==
    /\ pc = "idle"
    /\ \E name \in DOMAIN MapOps, c \in CtxStates :
       \E params \in TypedParams(MapOps[name]), net \in MapNets :
       \E r \in { MapCall(client.rpcClient.endpoint, c, MapOps[name], params, net) } :
           /\ Finish(name, Input(c, NoRequest, NoAccount, NoSlot, net), r)
           /\ UNCHANGED slot

DoIsConnected ==
    /\ pc = "idle"
    /\ \E c \in CtxStates, net \in TypedNets(NetworkStatusShape) :
       \E r \in { IsConnected(client.rpcClient.endpoint, c, net) } :
           /\ Finish("IsConnected", Input(c, NoRequest, NoAccount, NoSlot, net), r)
           /\ UNCHANGED slot

\* a manager method that extracts an identifier from its result
DoKeyedOp ==
    /\ pc = "idle"
    /\ \E name \in KeyedOpNames, c \in CtxStates :
       \E args \in [KeyedOp(name).paramKeys -> ArgValues], net \in KeyedNets(KeyedOp(name).key) :
       \E r \in { KeyedCall(client.rpcClient.endpoint, c, KeyedOp(name), args, net) } :
           /\ Finish(name, Input(c, NoRequest, NoAccount, NoSlot, net), r)
           /\ UNCHANGED slot

DoSendPrivateTransaction ==
    /\ pc = "idle"
    /\ \E c \in CtxStates, request \in PrivateRequests, to \in RecipientKeys,
          viewDraw \in RandDraws, spendDraw \in RandDraws, net \in PrivateNets :
       \E r \in { SendPrivateTransaction(client.rpcClient.endpoint, c, request,
                                         to.view, to.spend, viewDraw, spendDraw, net) } :
           /\ Finish("SendPrivateTransaction", Input(c, NoRequest, NoAccount, NoSlot, net), r)
           /\ UNCHANGED slot

DoGenerateStealthAddress ==
    /\ pc = "idle"
    /\ \E c \in CtxStates, includeSecrets \in BOOLEAN, net \in StealthNets :
       \E r \in { GenerateStealthAddress(client.rpcClient.endpoint, c, includeSecrets, net) } :
           /\ Finish("GenerateStealthAddress", Input(c, NoRequest, NoAccount, NoSlot, net), r)
           /\ UNCHANGED slot

\* the arguments of an operation that takes a public key and makes no RPC
KeyInput(publicKey) ==
    Input("live", NoRequest, Account("", publicKey, ""), NoSlot, NetFail("refused"))

DoGenerateAddress ==
    /\ pc = "idle"
    /\ \E publicKey \in PublicKeys :
       \E r \in { GenerateAddress(publicKey) } :
           /\ Finish("GenerateAddress", KeyInput(publicKey),
                     OpResult(FALSE, StrVal(r.address), r.err, 0, 0, NoWire))
           /\ UNCHANGED slot

DoCreateWatchOnlyAccount ==
    /\ pc = "idle"
    /\ \E publicKey \in PublicKeys :
       \E r \in { CreateWatchOnlyAccount(publicKey) } :
           /\ Finish("CreateWatchOnlyAccount", KeyInput(publicKey),
                     OpResult(r.isNil, r.account, r.err, 0, 0, NoWire))
           /\ UNCHANGED slot

\* the arguments of EncryptMemo and DecryptMemo
MemoInput(text, sharedSecret) == [memo |-> text, sharedSecret |-> sharedSecret] @@ NoInput

DoEncryptMemo ==
    /\ pc = "idle"
    /\ \E memo \in Memos, sharedSecret \in SharedSecrets :
       \E r \in { EncryptMemo(memo, sharedSecret) } :
           /\ Finish("EncryptMemo", MemoInput(memo, sharedSecret),
                     OpResult(FALSE, StrVal(r.val), r.err, 0, 0, NoWire))
           /\ UNCHANGED slot

DoDecryptMemo ==
    /\ pc = "idle"
    /\ \E encryptedMemo \in Ciphertexts, sharedSecret \in SharedSecrets :
       \E r \in { DecryptMemo(encryptedMemo, sharedSecret) } :
           /\ Finish("DecryptMemo", MemoInput(encryptedMemo, sharedSecret),
                     OpResult(FALSE, StrVal(r.val), r.err, 0, 0, NoWire))
           /\ UNCHANGED slot

\* the caller takes the result; the client is ready for the next call
Return ==
    /\ pc = "done"
    /\ pc' = "idle"
    /\ op' = "none"
    /\ ctx' = "live"
    /\ timeoutMs' = 0
    /\ startTime' = 0
    /\ fetches' = 0
    /\ fails' = 0
    /\ last' = NoFetch
    /\ calls' = 0
    /\ posts' = 0
    /\ inp' = NoInput
    /\ wire' = NoWire
    /\ slot' = NoSlot
    /\ ret' = NoReturn
    /\ UNCHANGED <<callers, client, given>>

(***************************************************************************)
(* SendTransaction, step by step: the key check on the assembled request,  *)
(* the signature, the submission.                                          *)
(***************************************************************************)
\* SendTransaction, had it submitted the request before signing it
SendBegin_SubmitsUnsigned ==
    /\ pc = "idle"
    /\ \E c \in CtxStates, request \in Requests, account \in Accounts, net \in SendNets :
       \E r \in { Call(client.rpcClient.endpoint, c, "sendTransaction",
                       PList(<<TxPayload(request, account, "")>>), MapSlot(NilMap), net) } :
           /\ account.PrivateKey /= ""
           /\ Finish("SendTransaction", Input(c, request, account, NoSlot, net),
                     OpResult(FALSE, StrVal(StringAt(r.slot.val, "hash").s), r.err,
                              1, r.posts, r.wire))
           /\ UNCHANGED slot

\* the call with its request and account: without a private key it returns
\* at once
SendBegin ==
    /\ pc = "idle"
    /\ \E c \in CtxStates, request \in Requests, account \in Accounts :
       \E in \in { Input(c, request, account, NoSlot, NetFail("refused")) } :
          IF account.PrivateKey = ""
          THEN /\ Finish("SendTransaction", in,
                         OpResult(FALSE, StrVal(""),
                                  Err("local", 0, "account does not have a private key"),
                                  0, 0, NoWire))
               /\ UNCHANGED slot
          ELSE /\ op' = "SendTransaction"
               /\ pc' = "built"
               /\ ctx' = c
               /\ inp' = in
               /\ UNCHANGED <<callers, client, given, timeoutMs, startTime, fetches, fails,
                              last, calls, posts, wire, slot, ret>>

\* wm.signTransaction(request, account.PrivateKey)
SendSign ==
    /\ op = "SendTransaction" /\ pc = "built"
    /\ \E txid \in TxIDs :
       \E signed \in { signTransaction(inp.request, inp.account.PrivateKey, txid) } :
          IF signed.err /= NilErr
          THEN /\ pc' = "done"
               /\ ret' = OpResult(FALSE, StrVal(""),
                                  Err("local", 0, "failed to sign transaction"), 0, 0, NoWire)
               /\ inp' = inp
          ELSE /\ pc' = "signed"
               /\ inp' = [inp EXCEPT !.signature = signed.sig]
               /\ ret' = ret
    /\ UNCHANGED <<callers, client, given, ctx, op, timeoutMs, startTime, fetches, fails,
                   last, calls, posts, wire, slot>>

\* the tx map is submitted and the hash read from the result
SendSubmit ==
    /\ op = "SendTransaction" /\ pc = "signed"
    /\ \E net \in SendNets :
       \E r \in { Call(client.rpcClient.endpoint, ctx, "sendTransaction",
                       PList(<<TxPayload(inp.request, inp.account, inp.signature)>>),
                       MapSlot(NilMap), net) } :
       \E txHash \in { StringAt(r.slot.val, "hash") } :
           /\ pc' = "done"
           /\ ctx' = CtxAfter(ctx, net)
           /\ inp' = [inp EXCEPT !.net = net]
           /\ calls' = calls + 1
           /\ posts' = posts + r.posts
           /\ wire' = r.wire
           /\ ret' = IF r.err /= NilErr
                     THEN OpResult(FALSE, StrVal(""), r.err, 1, r.posts, r.wire)
                     ELSE IF txHash.ok
                     THEN OpResult(FALSE, StrVal(txHash.s), NilErr, 1, r.posts, r.wire)
                     ELSE OpResult(FALSE, StrVal(""),
                                   Err("local", 0, "invalid transaction response"),
                                   1, r.posts, r.wire)
    /\ UNCHANGED <<callers, client, given, op, timeoutMs, startTime, fetches, fails,
                   last, slot>>

(***************************************************************************)
(* Callers inside Call at the same time.                                   *)
(***************************************************************************)
SequentialVars ==
    <<client, given, ctx, op, pc, timeoutMs, startTime, fetches, fails, last,
      calls, posts, inp, wire, slot, ret>>

\* a caller calls Call on the transport of the client, reached directly or
\* through one of the managers, and runs it up to the built request
Begin ==
    /\ pc = "idle"
    /\ \E i \in Callers, c \in {"live", "canceled"}, in \in ConcurrentCalls,
          transport \in {client.rpcClient}
                           \cup { ManagerTransport(client, m) : m \in ManagerNames } :
          /\ callers[i].stage = "out"
          /\ callers' = [callers EXCEPT
                            ![i] = BuildRequest(transport,
                                                EnterCall(c, in.method, in.params, in.slot0))]
    /\ UNCHANGED SequentialVars

\* Call, had the transport kept the latest response in a field from which
\* every call decodes
Send_SharedResponse ==
    /\ \E i \in Callers, net \in ConcurrentNets :
          /\ callers[i].stage = "built"
          /\ callers' = [j \in Callers |->
                            IF j = i THEN Do(callers[i], net)
                            ELSE IF callers[j].stage = "answered" /\ net.kind = "body"
                            THEN [callers[j] EXCEPT !.resp = net.body]
                            ELSE callers[j]]
    /\ UNCHANGED SequentialVars

\* c.client.Do(req) of a caller that has built its request
Send ==
    /\ \E i \in Callers, net \in ConcurrentNets :
          /\ callers[i].stage = "built"
          /\ callers' = [callers EXCEPT ![i] = Do(callers[i], net)]
    /\ UNCHANGED SequentialVars

\* a caller decodes the response it holds
Receive ==
    /\ \E i \in Callers :
          /\ callers[i].stage = "answered"
          /\ callers' = [callers EXCEPT ![i] = DecodeResponse(callers[i])]
    /\ UNCHANGED SequentialVars

\* a caller has the error and its slot and leaves
Leave ==
    /\ \E i \in Callers :
          /\ callers[i].stage = "returned"
          /\ callers' = [callers EXCEPT ![i] = NoCall]
    /\ UNCHANGED SequentialVars

Next ==
    \/ Construct
    \/ WaitStart
    \/ WaitFetch
    \/ WaitTimeout
    \/ CancelContext
    \/ DirectCall
    \/ DoSendTransaction
    \/ DoTypedOp
    \/ DoListOp
    \/ DoMapOp
    \/ DoIsConnected
    \/ DoKeyedOp
    \/ DoSendPrivateTransaction
    \/ DoGenerateStealthAddress
    \/ DoGenerateAddress
    \/ DoCreateWatchOnlyAccount
    \/ DoEncryptMemo
    \/ DoDecryptMemo
    \/ Return

Spec == Init /\ [][Next]_vars

\* a call that has started keeps running: the loop of WaitForTransaction
\* takes its next iteration, or leaves, whenever it can
FairSpec == Spec /\ WF_vars(WaitFetch) /\ WF_vars(WaitTimeout)

WrapNext ==
    Construct \/ WaitStartLong \/ WaitFetchMany \/ WaitFetchLate \/ WaitTimeout \/ Return

WrapSpec == Init /\ [][WrapNext]_vars

SendNext == Construct \/ SendBegin \/ SendSign \/ SendSubmit \/ Return

SendSpec == Init /\ [][SendNext]_vars

\* one caller at a time runs whole operations, or several are inside Call
Sequential == (\A i \in Callers : callers[i].stage = "out") /\ Next

ConcNext == Sequential \/ Begin \/ Send \/ Receive \/ Leave

ConcSpec == Init /\ [][ConcNext]_vars

(***************************************************************************)
(* Properties.                                                             *)
(***************************************************************************)
Waiting == op = "WaitForTransaction" /\ pc = "loop"
Waited == op = "WaitForTransaction" /\ pc = "done"
Fetched == op = "WaitForTransaction" /\ fetches > 0 /\ last.err = NilErr

\* C1: a WaitForTransaction that is polling under a context that stays live
\* returns: with the node's terminal
\* status if one is observed, and otherwise, whatever the node does (answers
\* non-terminal, fails every fetch, or mixes the two), with the error
\* "transaction confirmation timeout" once the budget is used up.
C1_WaitReturns ==
    (Waiting /\ ctx = "live")
        ~> \/ ctx /= "live"
           \/ Waited /\ (ret.err.msg = "transaction confirmation timeout"
                          \/ IsTerminal(last.tx.status))

\* C2: once the context of a polling WaitForTransaction is cancelled or past
\* its deadline while budget remains, WaitForTransaction stops polling and
\* returns a cancellation error.
C2_CancelStopsWait ==
    (Waiting /\ ctx /= "live" /\ startTime < timeoutMs)
        ~> (Waited /\ IsCancellation(ret.err))

\* C3: when the first N fetches fail and the next one answers confirmed,
\* WaitForTransaction returns that transaction with a nil error after exactly
\* N+1 fetches; and whenever WaitForTransaction returns, with or without an
\* error, the fetch it returns on is one that succeeded.
C3_ConfirmedAfterFailures ==
    /\ (Waited /\ last.err = NilErr /\ last.tx.status = "confirmed"
          /\ startTime = 0 /\ fails < MaxFails)
       => (ret.err = NilErr /\ ~ret.isNil /\ fetches = fails + 1)
    /\ Waited => last.err = NilErr

C3_Witness ==
    /\ Waited /\ last.tx.status = "confirmed" /\ startTime = 0
    /\ fails = MaxFails - 1 /\ fetches = MaxFails /\ ret.err = NilErr

\* C4: as soon as a fetch of WaitForTransaction has returned a transaction
\* whose status is confirmed, WaitForTransaction has returned exactly that
\* transaction with a nil error (so it fetches no more).
C4_ConfirmedReturnsFetched ==
    (Fetched /\ last.tx.status = "confirmed")
        => (pc = "done" /\ ~ret.isNil /\ ret.val = last.tx /\ ret.err = NilErr)

C4_Witness ==
    /\ Waited /\ last.err = NilErr /\ last.tx.status = "confirmed"
    /\ ret.val.hash = "0xabc" /\ startTime > 0

\* C5: as soon as a fetch of WaitForTransaction has returned a transaction
\* whose status is failed or rejected, WaitForTransaction has returned a nil
\* transaction and the error "transaction failed" / "transaction rejected".
C5_TerminalFailureReturnsError ==
    /\ (Fetched /\ last.tx.status = "failed")
          => (pc = "done" /\ ret.isNil /\ ret.err = Err("local", 0, "transaction failed"))
    /\ (Fetched /\ last.tx.status = "rejected")
          => (pc = "done" /\ ret.isNil /\ ret.err = Err("local", 0, "transaction rejected"))

C5_Witness ==
    Waited /\ last.err = NilErr /\ last.tx.status = "rejected" /\ ret.isNil /\ fails > 0

\* the direct Call sent its request and read a body that decodes
Decoded ==
    /\ op = "Call" /\ pc = "done" /\ posts = 1
    /\ inp.net.kind = "body" /\ inp.net.body.ok /\ inp.net.body.error.t /= "bad"

\* C6: when the decoded envelope carries an error object, Call returns that
\* error with its code and message and the result slot is as it was before
\* the call, also when a result comes with the error.
C6_ErrorVerbatim ==
    (Decoded /\ inp.net.body.error.t = "obj")
        => /\ ret.err = Err("rpc", inp.net.body.error.code, inp.net.body.error.message)
           /\ slot = inp.slot

C6_Witness ==
    /\ Decoded /\ inp.net.body.error.t = "obj" /\ inp.net.body.error.code = -32000
    /\ inp.net.body.result.t = "obj" /\ inp.slot.kind = "struct"
    /\ ret.err.code = -32000 /\ ret.err.msg = "not found"

\* the result does not have the shape the slot expects
Mismatch(j, s) ==
    /\ j.t /= "null"
    /\ \/ j.t /= "obj"
       \/ /\ s.kind = "struct"
          /\ \E k \in DOMAIN s.shape \cap DOMAIN j.f :
                j.f[k].t /= "null" /\ ~Fits(j.f[k], s.shape[k])

\* C7: when the result does not match the shape of the slot, Call returns a
\* decode error and the slot holds what it held before the call.
C7_MismatchLeavesSlot ==
    (Decoded /\ inp.net.body.error.t \in {"absent", "null"} /\ inp.slot.kind /= "none"
       /\ Mismatch(inp.net.body.result, inp.slot))
        => (ret.err.kind = "unmarshal" /\ slot = inp.slot)

\* C8: an operation other than WaitForTransaction invokes Call at most once,
\* and Call issues at most one POST per invocation: never more POSTs than
\* invocations, in WaitForTransaction one invocation per fetch; an exchange
\* that fails is returned to the caller as the error of the operation (by
\* IsConnected, which has no error to return, as false).
C8_OnePostNoRetry ==
    /\ posts <= calls
    /\ op /= "WaitForTransaction" => calls <= 1
    /\ op = "WaitForTransaction" => calls = fetches
    /\ (pc = "done" /\ op /= "WaitForTransaction" /\ posts >= 1 /\ inp.net.kind /= "body")
          => IF op = "IsConnected"
             THEN ret.val = BoolVal(FALSE)
             ELSE ret.err = Err("send", 0, inp.net.kind)

C8_Witness ==
    /\ op = "SendTransaction" /\ pc = "done" /\ calls = 1 /\ posts = 1
    /\ ret.err = Err("send", 0, "refused")

\* C9: a call that is made with its context already cancelled, and that
\* passes its local checks, returns a cancellation error and has issued no
\* HTTP request.
C9_CancelledCallReturns ==
    (/\ pc /= "idle" /\ inp.ctx /= "live"
     /\ EndpointParses(client.rpcClient.endpoint)
     /\ ~(op = "SendTransaction" /\ inp.account.PrivateKey = "")
     /\ ~(op = "Call" /\ ret.err.kind = "marshal"))
        ~> (pc = "done" /\ IsCancellation(ret.err) /\ posts = 0)

\* C10: the request SendTransaction submits is a sendTransaction whose one
\* parameter has the account's address as sender, the request's recipient,
\* amount, fee and nonce, a non-empty signature, and the request's memo
\* exactly when that memo is not empty; and with a private key, a parsable
\* endpoint and a live context the request is submitted.
Submitted == op = "SendTransaction" /\ pc = "done" /\ wire /= NoWire

C10_SubmittedPayload ==
    /\ Submitted =>
         /\ wire.method = "sendTransaction"
         /\ wire.hasParams /\ Len(wire.params) = 1
         /\ LET tx == wire.params[1]
            IN  /\ {"sender", "recipient", "amount", "fee", "nonce", "signature"}
                      \subseteq DOMAIN tx
                /\ tx["sender"] = inp.account.Address
                /\ tx["recipient"] = inp.request.To
                /\ tx["amount"] = inp.request.Amount
                /\ tx["fee"] = inp.request.Fee
                /\ tx["nonce"] = inp.request.Nonce
                /\ tx["signature"] /= ""
                /\ ("memo" \in DOMAIN tx) <=> (inp.request.Memo /= "")
                /\ "memo" \in DOMAIN tx => tx["memo"] = inp.request.Memo
                /\ DOMAIN tx \subseteq {"sender", "recipient", "amount", "fee", "nonce",
                                        "signature", "memo"}
    /\ (/\ op = "SendTransaction" /\ pc = "done" /\ inp.account.PrivateKey /= ""
        /\ inp.ctx = "live" /\ EndpointParses(client.rpcClient.endpoint))
          => Submitted

C10_Witness ==
    /\ Submitted /\ inp.request.Memo = "hi" /\ inp.request.Nonce = 7
    /\ inp.account.Address = "addrA" /\ wire.params[1]["memo"] = "hi"
    /\ ret.err = NilErr /\ ret.val = StrVal("0xabc")

\* the operation sent its request and the node answered with a result: a
\* body that decodes and carries no error
Answered(name) ==
    /\ op = name /\ pc = "done" /\ posts = 1
    /\ inp.net.kind = "body" /\ inp.net.body.ok
    /\ inp.net.body.error.t \in {"absent", "null"}

\* the result is an object whose member key is a string
HasString(j, key) == j.t = "obj" /\ key \in DOMAIN j.f /\ j.f[key].t = "str"

\* the result is null, or an object without a string under key
LacksString(j, key) == j.t = "null" \/ (j.t = "obj" /\ ~HasString(j, key))

\* C11: when the node answers the submission with a result whose hash member
\* is a string h, SendTransaction returns h and a nil error; when the result
\* is null, has no hash member, or has a hash that is not a string, it
\* returns the empty hash and the error "invalid transaction response".
C11_HashOrInvalidResponse ==
    Answered("SendTransaction") =>
        LET r == inp.net.body.result
        IN  /\ HasString(r, "hash")
                 => (ret.val = StrVal(r.f["hash"].s) /\ ret.err = NilErr)
            /\ LacksString(r, "hash")
                 => /\ ret.val = StrVal("")
                    /\ ret.err = Err("local", 0, "invalid transaction response")

C11_Witness ==
    /\ Answered("SendTransaction")
    /\ inp.net.body.result.t = "obj"
    /\ "hash" \in DOMAIN inp.net.body.result.f
    /\ inp.net.body.result.f["hash"].t = "num"
    /\ ret.val = StrVal("") /\ ret.err.msg = "invalid transaction response"

\* C12: SendTransaction with an account that has no private key returns the
\* empty hash and the local error "account does not have a private key" (not
\* an RPC error) without invoking Call; and every account that
\* CreateWatchOnlyAccount returns has no private key.
C12_WatchOnlyCannotSend ==
    /\ (op = "SendTransaction" /\ pc = "done" /\ inp.account.PrivateKey = "")
          => /\ ret.val = StrVal("")
             /\ ret.err = Err("local", 0, "account does not have a private key")
             /\ calls = 0 /\ posts = 0 /\ wire = NoWire
    /\ (op = "CreateWatchOnlyAccount" /\ pc = "done" /\ ~ret.isNil)
          => (ret.val.PrivateKey = "" /\ ret.val.PublicKey = inp.account.PublicKey)

C12_Witness ==
    /\ op = "SendTransaction" /\ pc = "done" /\ inp.account.PrivateKey = ""
    /\ inp.account = CreateWatchOnlyAccount("0a").account
    /\ inp.ctx = "live" /\ inp.net.kind = "body" /\ inp.net.body.error.t = "absent"
    /\ ret.err.msg = "account does not have a private key"

\* the operations that extract an identifier by key, with their key and text
ExtractingOps == KeyedOpNames \cup DOMAIN PrivacyKeyedOps
Extracting(name) ==
    IF name \in KeyedOpNames THEN KeyedOp(name) ELSE PrivacyKeyedOps[name]

\* the identifier an extracting operation returned ("" with a nil account)
Identifier ==
    IF op = "GenerateStealthAddress"
    THEN (IF ret.isNil THEN "" ELSE ret.val.Address)
    ELSE ret.val.str

\* C13: an operation that extracts an identifier by key from a successful
\* result returns the member's value and a nil error when the member is a
\* string, and the empty value with its "invalid ... response" error when
\* the result is null, lacks the member or holds it with another type; it
\* returns no value with a nil error for a result that lacks the key.
C13_IdentifierOrInvalidResponse ==
    \A name \in ExtractingOps :
        Answered(name) =>
            LET r == inp.net.body.result
                key == Extracting(name).key
            IN  /\ HasString(r, key)
                     => /\ ret.err = NilErr
                        /\ Identifier = r.f[key].s
                        /\ op = "GenerateStealthAddress" => ~ret.isNil
                /\ LacksString(r, key)
                     => /\ ret.err = Err("local", 0, Extracting(name).msg)
                        /\ Identifier = ""
                /\ ~HasString(r, key) => ret.err /= NilErr

C13_Witness ==
    /\ Answered("SendPrivateTransaction")
    /\ inp.net.body.result = JObj([other |-> JStr("x")])
    /\ ret.err = Err("local", 0, "invalid private transaction response")
    /\ ret.val = StrVal("")

\* the operations that decode into a typed structure, and the structure
DecodingOps ==
    {"GetTransaction", "GetBalance", "GetValidator", "GetValidators", "GetProposal",
     "GetNetworkStatus", "EstimateFee"}
DecodedShape(name) ==
    IF name \in DOMAIN ListOps THEN ListOps[name].shape ELSE TypedOp(name).shape

\* the result is null or an object that lacks a member of shape
Incomplete(j, shape) == j.t = "null" \/ (j.t = "obj" /\ ~(DOMAIN shape \subseteq DOMAIN j.f))

\* C14: when the node answers one of the operations that decode into a typed
\* structure with a result that is null or lacks an expected member, the
\* operation returns an invalid-response error, not a zero or partly zero
\* result with a nil error.
C14_IncompleteResultIsError ==
    \A name \in DecodingOps :
        (Answered(name) /\ Incomplete(inp.net.body.result, DecodedShape(name)))
            => ret.err /= NilErr

\* the operations that make one Call themselves
SingleRPCOps ==
    {"Call", "SendTransaction"} \cup TypedOpNames \cup DOMAIN ListOps \cup DOMAIN MapOps
    \cup ExtractingOps

\* the operation sent its request and the node answered with an error object
Rejected ==
    /\ pc = "done" /\ posts = 1
    /\ inp.net.kind = "body" /\ inp.net.body.ok /\ inp.net.body.error.t = "obj"

Enveloped == op = "Call" /\ pc = "done" /\ wire /= NoWire

\* no byte of the string is outside UTF-8
ValidUTF8(str) == \A i \in 1..Len(str) : SubSeq(str, i, i) /= InvalidByte

\* C16 as stated: for every method name and every params value the envelope
\* Call sends decodes back to the same method and the same params, carries
\* the version "2.0" and the id 1, and has a params member exactly when
\* params is not nil.
C16_EnvelopeRoundTrip ==
    Enveloped =>
        /\ wire.jsonrpc = "2.0" /\ wire.id = 1
        /\ wire.method = inp.method
        /\ wire.hasParams <=> inp.params.t /= "nil"
        /\ wire.params = inp.params.v

\* C16 as amended: the same, for the method names and the string parameters
\* that are valid UTF-8; a string that is not reaches the node with its
\* invalid bytes replaced by U+FFFD.
C16_ValidEnvelopeRoundTrip ==
    Enveloped =>
        /\ wire.jsonrpc = "2.0" /\ wire.id = 1
        /\ ValidUTF8(inp.method) => wire.method = inp.method
        /\ wire.hasParams <=> inp.params.t /= "nil"
        /\ (inp.params.t = "strings" => \A i \in DOMAIN inp.params.v : ValidUTF8(inp.params.v[i]))
              => wire.params = inp.params.v
        /\ Len(wire.params) = Len(inp.params.v)

C16_Witness ==
    /\ Enveloped /\ inp.method = "getTransaction" /\ inp.params = PList(<<>>)
    /\ wire.hasParams /\ wire.params = <<>> /\ wire.method = "getTransaction"

\* C18: NewClient resolves the configuration it is given: nil is the default
\* configuration; an empty endpoint, a zero timeout and an empty network
\* become the default endpoint, 30 seconds and mainnet; every field that was
\* set is kept; and the client has one RPC transport, built from the resolved
\* endpoint and timeout, which is the transport of each of the four managers.
C18_DefaultsApplied ==
    pc /= "new" =>
        LET cfg == client.config
        IN  /\ given.isNil => cfg = DefaultClientConfig
            /\ ~cfg.isNil
            /\ cfg.Endpoint = (IF given.Endpoint = "" THEN DefaultEndpoint ELSE given.Endpoint)
            /\ cfg.Timeout = (IF given.Timeout = 0 THEN DefaultTimeout ELSE given.Timeout)
            /\ cfg.Network = (IF given.Network = "" THEN NetworkMainnet ELSE given.Network)
            /\ cfg.APIKey = given.APIKey
            /\ cfg.Headers = given.Headers
            /\ client.rpcClient = NewRPCClient(cfg.Endpoint, cfg.Timeout)
            /\ \A m \in ManagerNames : ManagerTransport(client, m) = client.rpcClient

C18_Witness ==
    /\ pc = "idle" /\ ~given.isNil
    /\ given.Endpoint = "" /\ given.Timeout = 0 /\ given.Network = "devnet"
    /\ client.config.Endpoint = "https://api.chert.com" /\ client.config.Timeout = 30
    /\ client.config.Network = "devnet"
    /\ client.rpcClient.endpoint = "https://api.chert.com"

\* C19: every request sent to the node carries Authorization: Bearer <api
\* key> when the client's configuration has an API key, and carries every
\* configured header under its canonical name with the configured value.
Sent == pc = "done" /\ posts > 0 /\ wire /= NoWire

C19_RequestsCarryConfiguredHeaders ==
    Sent =>
        /\ client.config.APIKey /= ""
              => /\ "Authorization" \in DOMAIN wire.headers
                 /\ wire.headers["Authorization"] = "Bearer " \o client.config.APIKey
        /\ \A k \in DOMAIN client.config.Headers :
              /\ CanonicalHeaderKey(k) \in DOMAIN wire.headers
              /\ wire.headers[CanonicalHeaderKey(k)] = client.config.Headers[k]

Generated == op = "GenerateAddress" /\ pc = "done"

\* two inputs of the digest that are told apart by none of its first 20 bytes
DigestCollision(b1, b2) ==
    b1 /= b2 /\ SubSeq(Sum256(b1), 1, 20) = SubSeq(Sum256(b2), 1, 20)

\* what C20 says of one key apart from the other keys: the address is the
\* one GenerateAddress yields for that key whenever it is asked; a key of hex
\* digits yields no error and 46 characters that start with "chert_", any
\* other key yields an error and no address
AddressOfKey(publicKey, address, err) ==
    /\ address = GenerateAddress(publicKey).address
    /\ err = GenerateAddress(publicKey).err
    /\ IF DecodeString(publicKey).ok
       THEN /\ err = NilErr
            /\ Len(address) = 46
            /\ SubSeq(address, 1, 6) = "chert_"
            /\ \A i \in 7..Len(address) :
                   \E d \in 1..16 : HexDigits[d] = SubSeq(address, i, i)
       ELSE err /= NilErr /\ address = ""

\* C20 as stated: GenerateAddress is deterministic, its addresses are
\* "chert_" and 40 hex digits, a key that is no valid hex yields an error and
\* no address, and two distinct public keys yield different addresses unless
\* the digest collides.
C20_DistinctKeysDistinctAddresses ==
    Generated =>
        LET publicKey == inp.account.PublicKey
        IN  /\ AddressOfKey(publicKey, ret.val.str, ret.err)
            /\ \A other \in PublicKeys :
                  (other /= publicKey /\ DecodeString(publicKey).ok
                      /\ DecodeString(other).ok)
                  => \/ GenerateAddress(other).address /= ret.val.str
                     \/ DigestCollision(DecodeString(publicKey).bytes,
                                        DecodeString(other).bytes)

\* C20, amended: as above, but the keys that yield different addresses
\* (unless the digest collides) are those that decode to different bytes;
\* two spellings of the same bytes, which differ in the case of hex
\* letters, yield the same address.
C20_DistinctBytesDistinctAddresses ==
    Generated =>
        LET publicKey == inp.account.PublicKey
        IN  /\ AddressOfKey(publicKey, ret.val.str, ret.err)
            /\ \A other \in PublicKeys :
                  (DecodeString(publicKey).ok /\ DecodeString(other).ok)
                  => IF DecodeString(other).bytes = DecodeString(publicKey).bytes
                     THEN GenerateAddress(other).address = ret.val.str
                     ELSE \/ GenerateAddress(other).address /= ret.val.str
                          \/ DigestCollision(DecodeString(publicKey).bytes,
                                             DecodeString(other).bytes)

C20_Witness ==
    /\ Generated /\ inp.account.PublicKey = "0A" /\ ret.err = NilErr
    /\ ret.val.str = GenerateAddress("0a").address
    /\ ret.val.str /= GenerateAddress("aa").address
    /\ Len(ret.val.str) = 46

\* C17: whatever the interleaving of the steps of the callers that are inside
\* Call on one client, the error a call returns and the content of its own
\* slot are those of that call run alone on its method, params, slot and
\* the node's answer to it; and once NewClient has returned no step writes
\* the client: its configuration, its transport's endpoint and timeout, its
\* managers.
ReturnsAsAlone(call) ==
    LET alone == Call(client.rpcClient.endpoint, call.ctx, call.method, call.params,
                      call.slot0, call.net)
    IN  call.err = alone.err /\ call.slot = alone.slot

C17_CallsIndependent ==
    /\ [](\A i \in Callers : callers[i].stage = "returned" => ReturnsAsAlone(callers[i]))
    /\ [][pc /= "new" => client' = client]_vars

C17_Witness ==
    /\ callers["g1"].stage = "returned" /\ callers["g1"].method = "getTransaction"
    /\ callers["g1"].err = NilErr /\ callers["g1"].slot.val.hash = "0xabc"
    /\ callers["g2"].stage = "returned" /\ callers["g2"].err.kind = "rpc"
    /\ callers["g2"].slot = callers["g2"].slot0
    /\ callers["g2"].method = "getTransaction"

\* C21: a direct Call that fails in transport returns the error of the stage
\* that failed and no JSON-RPC error: marshal when the params cannot be
\* marshalled (nothing is sent), send when the exchange fails (refused, timed
\* out), decode when the response body is malformed; the slot holds what it
\* held before the call, and the request went out at most once.
DirectlyCalled ==
    op = "Call" /\ pc = "done" /\ inp.ctx = "live"
        /\ EndpointParses(client.rpcClient.endpoint)

TransportStage ==
    IF inp.params.t = "bad" THEN "marshal"
    ELSE IF inp.net.kind /= "body" THEN "send"
    ELSE IF ~inp.net.body.ok \/ inp.net.body.error.t = "bad" THEN "decode"
    ELSE "none"

C21_TransportErrorNamesStage ==
    (DirectlyCalled /\ TransportStage /= "none")
        => /\ ret.err.kind = TransportStage
           /\ ret.err.kind /= "rpc" /\ ret.err /= NilErr
           /\ slot = inp.slot
           /\ calls = 1
           /\ posts = (IF TransportStage = "marshal" THEN 0 ELSE 1)
           /\ TransportStage = "send" => ret.err.msg = inp.net.kind

C21_Witness ==
    /\ DirectlyCalled /\ TransportStage = "decode"
    /\ inp.slot = StructSlot(TransactionShape, [hash |-> "old", status |-> "old", nonce |-> 1])
    /\ slot = inp.slot /\ ret.err = Err("decode", 0, "") /\ posts = 1

\* C22: SendTransaction goes from the assembled request to the signature to
\* the submission, in that order and once each: a request is posted only by
\* the step that follows the signature and carries that signature; without
\* a private key, or when signing fails, nothing is posted; a hash is
\* returned only when the node answered the one submission with a result
\* whose hash is that string; and the outcome is the one of SendTransaction
\* run as a whole.
Sending == op = "SendTransaction"

SendOrder ==
    { <<"idle", "built">>, <<"built", "signed">>, <<"signed", "done">>,
      <<"idle", "done">>, <<"built", "done">> }

C22_BuiltSignedSubmitted ==
    /\ [][Sending' =>
             /\ <<pc, pc'>> \in SendOrder
             /\ pc' = "built" => inp'.account.PrivateKey /= "" /\ inp'.signature = ""
             /\ (pc = "idle" /\ pc' = "done") => inp'.account.PrivateKey = ""
             /\ (pc = "built" /\ pc' = "done") => ret'.err.msg = "failed to sign transaction"
             /\ pc' = "signed" => inp'.signature /= ""
             /\ (posts' /= posts \/ calls' /= calls \/ wire' /= wire)
                   => pc = "signed" /\ pc' = "done" /\ calls' = 1 /\ posts' <= 1]_vars
    /\ []((Sending /\ posts > 0)
            => /\ inp.signature /= ""
               /\ wire.method = "sendTransaction"
               /\ wire.params[1]["signature"] = inp.signature)
    /\ []((Sending /\ pc = "done" /\ (ret.val /= StrVal("") \/ ret.err = NilErr))
            => /\ posts = 1 /\ Answered("SendTransaction")
               /\ HasString(inp.net.body.result, "hash")
               /\ ret.val = StrVal(inp.net.body.result.f["hash"].s))
    /\ []((Sending /\ pc = "done")
            => \E txid \in TxIDs :
                 ret = SendTransaction(client.rpcClient.endpoint, inp.ctx, inp.request,
                                       inp.account, txid, inp.net))

C22_Witness ==
    /\ Sending /\ pc = "done" /\ posts = 1
    /\ inp.signature = "mock_signature_uuid2"
    /\ wire.params[1]["signature"] = "mock_signature_uuid2"
    /\ ret.val = StrVal("0xabc") /\ ret.err = NilErr

\* the fetches needed to use up the budget t
FetchesWithin(t) == (t + Interval - 1) \div Interval

\* every fetch so far succeeded
NoFetchFailed == op = "WaitForTransaction" /\ fails = 0

\* C23: while every fetch succeeds with a non-terminal status,
\* WaitForTransaction fetches one at a time (one Call per fetch, the counter
\* at 2000 per fetch made), goes on fetching until ceil(T/2000) fetches are
\* made and not beyond, and then returns the timeout error after exactly
\* ceil(T/2000) fetches; T is the timeout passed, 60000 when 0 is passed
\* (30 fetches).
C23_SequentialFetchesThenTimeout ==
    /\ NoFetchFailed => timeoutMs = (IF inp.timeoutMs = 0 THEN DefaultTimeoutMs ELSE inp.timeoutMs)
    /\ (NoFetchFailed /\ pc = "loop")
          => /\ calls = fetches /\ posts = fetches
             /\ startTime = Interval * fetches
             /\ fetches <= FetchesWithin(timeoutMs)
             /\ (fetches < FetchesWithin(timeoutMs)) = (startTime < timeoutMs)
    /\ (NoFetchFailed /\ pc = "done" /\ ~(fetches > 0 /\ IsTerminal(last.tx.status)))
          => /\ ret.err = Err("local", 0, "transaction confirmation timeout") /\ ret.isNil
             /\ fetches = FetchesWithin(timeoutMs) /\ calls = fetches
             /\ inp.timeoutMs = 0 => fetches = 30

C23_Witness ==
    /\ NoFetchFailed /\ pc = "done" /\ inp.timeoutMs = 3000 /\ fetches = 2
    /\ last.tx.status = "pending"
    /\ ret.err.msg = "transaction confirmation timeout"

\* a fetch of WaitForTransaction has just come back
FetchStep == op = "WaitForTransaction" /\ pc = "loop" /\ last' /= last

\* the fetches so far that succeeded with a status to keep polling on
PendingFetches ==
    fetches - fails - (IF pc = "done" /\ fetches > 0 /\ IsTerminal(last.tx.status) THEN 1 ELSE 0)

\* C24: throughout WaitForTransaction the counter is 2000 times the number
\* of fetches that succeeded with a status other than confirmed, failed and
\* rejected (pending, the empty status of a null or field-less result, an
\* unknown string); such a fetch adds 2000, a fetch that fails and a fetch
\* that ends the wait add nothing.
C24_CounterCountsPendingFetches ==
    /\ [](op = "WaitForTransaction" => startTime = Interval * PendingFetches)
    /\ [][FetchStep =>
             startTime' = IF last'.err = NilErr /\ ~IsTerminal(last'.tx.status)
                          THEN startTime + Interval
                          ELSE startTime]_vars
    /\ [][(FetchStep /\ last'.err = NilErr
                /\ last'.tx.status \in {"pending", "", "unknown"})
             => startTime' = startTime + Interval]_vars

C24_Witness ==
    /\ op = "WaitForTransaction" /\ pc = "loop" /\ fails = 2 /\ fetches = 4
    /\ last.err = NilErr /\ last.tx.status = "" /\ startTime = 4000

\* the counter is a sum of intervals that never passed 2^64
Unwrapped(n) == IF n >= 0 THEN n % Interval = 0 ELSE (n + TopRemainder) % Interval = 0

\* C25: the counter of WaitForTransaction never wraps around, whatever the
\* timeout: it is at all times the plain sum of the 2000s added to it, a
\* multiple of 2000 below 2^64.
C25_CounterNeverWraps ==
    op = "WaitForTransaction" => Unwrapped(startTime)

\* the tx map of the request posted
PostedTx == wire.params[1]

\* a pair of key pairs without its secret halves
Redacted(keys) ==
    StealthKeys(KeyPair(keys.ViewKeypair.Public, ""), KeyPair(keys.SpendKeypair.Public, ""))

\* C26: a request posted by SendTransaction or SendPrivateTransaction
\* carries no secret key material: the tx map of SendTransaction is the one
\* any other private key would have given with the same signature, and the
\* key pairs in the tx map of SendPrivateTransaction (the sender's and the
\* ephemeral ones) come without their secret halves.
C26_NoSecretKeysSent ==
    /\ (op = "SendTransaction" /\ posts > 0)
          => \A key \in {"a1", "a2", "zz"} :
                PostedTx = TxPayload(inp.request, [inp.account EXCEPT !.PrivateKey = key],
                                     PostedTx["signature"])
    /\ (op = "SendPrivateTransaction" /\ posts > 0)
          => /\ PostedTx["sender_keys"] = Redacted(PostedTx["sender_keys"])
             /\ PostedTx["ephemeral_keys"] = Redacted(PostedTx["ephemeral_keys"])

\* C27: EncryptMemo and DecryptMemo return a value or an error and never
\* crash; with a shared secret that is valid hex, the empty one included,
\* EncryptMemo returns a ciphertext that DecryptMemo under the same secret
\* turns back into the memo with a nil error; a secret or a ciphertext that
\* is no hex gives an error.
C27_MemoRoundTrip ==
    /\ (op \in {"EncryptMemo", "DecryptMemo"} /\ pc = "done")
          => /\ ret.err.kind /= "panic"
             /\ ~DecodeString(inp.sharedSecret).ok => ret.err.kind = "local"
    /\ (op = "EncryptMemo" /\ pc = "done" /\ DecodeString(inp.sharedSecret).ok)
          => /\ ret.err = NilErr
             /\ DecryptMemo(ret.val.str, inp.sharedSecret) = [val |-> inp.memo, err |-> NilErr]
    /\ (op = "DecryptMemo" /\ pc = "done" /\ ~DecodeString(inp.memo).ok)
          => ret.err.kind = "local"

====
